---- MODULE Spec2Model ----
(***************************************************************************)
(* A model of the sled storage managers of indradb                         *)
(* (lib/src/sledds/managers.rs) and of the map-reduce plugin               *)
(* (plugins/map_reduce/src/lib.rs).                                        *)
(*                                                                         *)
(* Keys and values are byte sequences, built and read by the key codec.    *)
(* A keyspace (sled Tree) is a set of <<key, value>> pairs with unique     *)
(* keys; scans walk it in lexicographic byte order.                        *)
(***************************************************************************)
EXTENDS Integers, Sequences, FiniteSets, TLC

\* ------------------------------------------------------------------ bounds
\* Number of manager operations one behaviour of the store model performs.
MaxOps == 3
\* Number of index entries the range-query model inserts.
MaxEntries == 3
\* Largest number of vertices map_reduce runs over.
MaxVertices == 3
\* Entries the scanned keyspaces hold at most.
MaxScanEntries == 2
\* Operations the writers of the batch model call on their batches.
MaxBatchOps == 2
\* Operations the writer of the deferred-write model calls on its batch.
MaxDeferredOps == 1
\* Calls of VertexManager::delete made while a read may fail.
MaxFaultOps == 1

\* ----------------------------------------------------------------- domains
\* Vertex ids (the value of the UUID read as a big-endian integer).
Uuids == {1, 2}
\* Types, as their UTF-8 bytes: "a" and "ab" (encodings of different length).
TypeA == <<97>>
TypeAB == <<97, 98>>
Types == {TypeA, TypeAB}
\* Types of the edges and of the vertices the store model writes.
EdgeTypes == {TypeA}
VertexTypes == {TypeAB}
\* Update datetimes, as instants since the epoch.
DateTimes == {1, 2}
\* Update datetimes of the range-query model's index entries: T1 < T2 < T3.
RangeDateTimes == {1, 2, 3}
\* Property names, as their UTF-8 bytes: "n".
Names == {<<110>>}
\* Property names of the scan model: one is a prefix of the other.
ScanNames == {<<110>>, <<110, 111>>}
\* Types of the key model: 'a', 'ab' and 'b'.
CodecTypes == {<<97>>, <<97, 98>>, <<98>>}
\* Upper bounds of the scan model's range queries.
ScanHighs == {1}
\* JSON property values (numbers 0..9).
JsonValues == {7}
\* Property values of the direct-write model.
DirectValues == {7, 8}

\* Option<T>: None is the empty sequence, Some(x) the one-element sequence.
None == <<>>
Some(x) == <<x>>

\* --------------------------------------------------------------- key codec
\* Width in bytes of an encoded UUID.
UuidWidth == 16
\* Width in bytes of an encoded DateTime.
DateTimeWidth == 8
\* The largest instant the model's datetime domain holds.
MAX_DATETIME == 2147483647

\* n as w big-endian bytes.
RECURSIVE BigEndian(_, _)
BigEndian(n, w) ==
    IF w = 0 THEN <<>> ELSE Append(BigEndian(n \div 256, w - 1), n % 256)

\* The integer a big-endian byte sequence denotes.
RECURSIVE FromBigEndian(_)
FromBigEndian(bytes) ==
    IF bytes = <<>> THEN 0
    ELSE 256 * FromBigEndian(SubSeq(bytes, 1, Len(bytes) - 1)) + bytes[Len(bytes)]

\* Components of a composite key.
CUuid(id) == [kind |-> "Uuid", v |-> id]
CType(t) == [kind |-> "Type", v |-> t]
CDateTime(d) == [kind |-> "DateTime", v |-> d]
CUnsizedString(s) == [kind |-> "UnsizedString", v |-> s]

\* The wire form of one component.
WriteComponent(c) ==
    CASE c.kind = "Uuid" -> BigEndian(c.v, UuidWidth)
      [] c.kind = "Type" -> <<Len(c.v)>> \o c.v
      [] c.kind = "DateTime" -> BigEndian(c.v, DateTimeWidth)
      [] c.kind = "UnsizedString" -> c.v

\* build(&[...]): the concatenation of the components' wire forms.
RECURSIVE build(_)
build(components) ==
    IF components = <<>> THEN <<>>
    ELSE WriteComponent(Head(components)) \o build(Tail(components))

\* Readers: each consumes a cursor (the bytes left) and returns the value read
\* and the bytes after it.
Drop(bytes, n) == SubSeq(bytes, n + 1, Len(bytes))
read_uuid(cursor) ==
    [v |-> FromBigEndian(SubSeq(cursor, 1, UuidWidth)), rest |-> Drop(cursor, UuidWidth)]
read_type(cursor) ==
    [v |-> SubSeq(cursor, 2, 1 + cursor[1]), rest |-> Drop(cursor, 1 + cursor[1])]
read_datetime(cursor) ==
    [v |-> FromBigEndian(SubSeq(cursor, 1, DateTimeWidth)), rest |-> Drop(cursor, DateTimeWidth)]
read_unsized_string(cursor) == [v |-> cursor, rest |-> <<>>]

\* serde_json::to_vec / from_slice on the numbers 0..9: the ASCII digit.
to_vec(value) == <<48 + value>>
from_slice(bytes) == bytes[1] - 48

\* ------------------------------------------------------- byte-string order
starts_with(k, prefix) ==
    /\ Len(prefix) <= Len(k)
    /\ SubSeq(k, 1, Len(prefix)) = prefix

\* a <= b in lexicographic byte order.
LexLeq(a, b) ==
    \/ starts_with(b, a)
    \/ \E i \in 1..Len(a) :
          /\ i <= Len(b)
          /\ a[i] < b[i]
          /\ \A j \in 1..(i - 1) : a[j] = b[j]

\* ------------------------------------------------------------- sled trees
\* Point operations of a Tree.
TreeKeys(tree) == {p[1] : p \in tree}
TreeGet(tree, k) ==
    IF k \in TreeKeys(tree) THEN Some((CHOOSE p \in tree : p[1] = k)[2]) ELSE None
\* An insert that adds the new pair without replacing the stored one.
TreeInsert_keep(tree, k, v) == tree \cup {<<k, v>>}
TreeInsert(tree, k, v) == {p \in tree : p[1] # k} \cup {<<k, v>>}
TreeRemove(tree, k) == {p \in tree : p[1] # k}

\* The entries of a set of pairs in ascending key order.
RECURSIVE Sorted(_)
Sorted(entries) ==
    IF entries = {} THEN <<>>
    ELSE LET m == CHOOSE x \in entries : \A y \in entries : LexLeq(x[1], y[1])
         IN <<m>> \o Sorted(entries \ {m})

\* tree.range(low..): the entries with key >= low, ascending.
TreeRange(tree, low) == Sorted({p \in tree : LexLeq(low, p[1])})
\* tree.scan_prefix(prefix): the entries whose key starts with prefix, ascending.
TreeScanPrefix(tree, prefix) == Sorted({p \in tree : starts_with(p[1], prefix)})

\* ------------------------------------------------------- failing reads
\* An item of a scan is Ok((k, v)), the pair <<k, v>>, or an Err: the read of
\* the record failed. The failing record is written <<k, v, e>>, k being
\* where the scan had got to and e the error.
StoreError == "StoreError"
ReadFails(item) == Len(item) = 3
\* The keyspace as a scan reads it when the read of the record at k fails.
FailingRead(tree, k) ==
    {IF p[1] = k THEN <<p[1], p[2], StoreError>> ELSE p : p \in tree}
\* An item of a manager's iterator is a decoded item or Err(e), written <<e>>.
ItemErr(e) == <<e>>
IsErr(item) == Len(item) = 1
\* The error of the first Err item, if any.
FirstErr(items) ==
    IF \E n \in 1..Len(items) : IsErr(items[n])
    THEN Some(items[CHOOSE n \in 1..Len(items) :
                       /\ IsErr(items[n])
                       /\ \A m \in 1..(n - 1) : ~IsErr(items[m])][1])
    ELSE None
\* The items before the first Err item.
RECURSIVE UntilErr(_)
UntilErr(items) ==
    IF items = <<>> THEN <<>>
    ELSE IF IsErr(Head(items)) THEN <<>>
    ELSE <<Head(items)>> \o UntilErr(Tail(items))

\* A cut that never stops: the whole scan.
take_while_prefixed_unbounded(iterator, prefix) == iterator

\* The longest initial run of a scan whose items are Ok and whose keys start
\* with the prefix: the first item that is an Err, or lies past the prefix,
\* ends the run and is not yielded.
RECURSIVE take_while_prefixed(_, _)
take_while_prefixed(iterator, prefix) ==
    IF iterator = <<>> THEN <<>>
    ELSE LET item == Head(iterator)
             kept == IF ReadFails(item) THEN FALSE ELSE starts_with(item[1], prefix)
         IN IF kept
            THEN <<item>> \o take_while_prefixed(Tail(iterator), prefix)
            ELSE <<>>

\* ---------------------------------------------------------------- batches
\* A sled Batch maps a key to Some(value) (insert) or None (remove); a later
\* write of a key replaces the earlier one.
\* An insert that gives way to a removal of the key queued before it.
BatchInsert_after_remove(b, k, v) ==
    IF <<k, None>> \in b THEN b ELSE {p \in b : p[1] # k} \cup {<<k, Some(v)>>}
BatchInsert(b, k, v) == {p \in b : p[1] # k} \cup {<<k, Some(v)>>}
BatchRemove(b, k) == {p \in b : p[1] # k} \cup {<<k, None>>}
\* tree.apply_batch(batch)
ApplyBatch(tree, b) ==
    {p \in tree : p[1] \notin TreeKeys(b)}
        \cup {<<p[1], p[2][1]>> : p \in {q \in b : q[2] # None}}

TreeNames ==
    <<"vertices", "edges", "edge_ranges", "reversed_edge_ranges",
      "vertex_properties", "edge_properties">>
TreeNameSet == {TreeNames[n] : n \in 1..6}

\* SledHolder::new: six empty keyspaces.
EmptyHolder == [f \in TreeNameSet |-> {}]
\* UberBatch::default(): no per-keyspace batch yet.
DefaultUberBatch == [f \in TreeNameSet |-> None]

\* The accessors vertices(), edges(), ...: the keyspace's batch, created on
\* first use.
Accessor(ub, f) == IF ub[f] = None THEN {} ELSE ub[f][1]
UberInsert(ub, f, k, v) == [ub EXCEPT ![f] = Some(BatchInsert(Accessor(ub, f), k, v))]
UberRemove(ub, f, k) == [ub EXCEPT ![f] = Some(BatchRemove(Accessor(ub, f), k))]

\* ------------------------------------------------------ EdgeRangeManager
\* The keyspace an EdgeRangeManager works on.
EdgeRangeTree(reversed) == IF reversed THEN "reversed_edge_ranges" ELSE "edge_ranges"

\* A key with the two ids in each other's place.
EdgeRangeManager_key_swapped(first_id, t, update_datetime, second_id) ==
    build(<<CUuid(second_id), CType(t), CDateTime(update_datetime), CUuid(first_id)>>)

EdgeRangeManager_key(first_id, t, update_datetime, second_id) ==
    build(<<CUuid(first_id), CType(t), CDateTime(update_datetime), CUuid(second_id)>>)

\* Decodes the keys of a scan cut at the prefix boundary into
\* (first_id, t, update_datetime, second_id) items.
EdgeRangeManager_iterate(iterator, prefix) ==
    LET filtered == take_while_prefixed(iterator, prefix)
        decoded(k) ==
            LET first_id == read_uuid(k)
                t == read_type(first_id.rest)
                update_datetime == read_datetime(t.rest)
                second_id == read_uuid(update_datetime.rest)
            IN <<first_id.v, t.v, update_datetime.v, second_id.v>>
        item(p) == IF ReadFails(p) THEN ItemErr(p[3]) ELSE decoded(p[1])
    IN [n \in 1..Len(filtered) |-> item(filtered[n])]

EdgeRangeManager_iterate_for_owner(ds, reversed, id) ==
    LET prefix == build(<<CUuid(id)>>)
        iterator == TreeScanPrefix(ds[EdgeRangeTree(reversed)], prefix)
    IN EdgeRangeManager_iterate(iterator, prefix)

\* A filter that keeps only the items strictly before high.
RECURSIVE FilterHigh_strict(_, _)
FilterHigh_strict(mapped, high) ==
    IF mapped = <<>> THEN <<>>
    ELSE IF IsErr(Head(mapped)) \/ Head(mapped)[3] < high
         THEN <<Head(mapped)>> \o FilterHigh_strict(Tail(mapped), high)
         ELSE FilterHigh_strict(Tail(mapped), high)

\* Keeps the items of a decoded scan that are Err or whose datetime is at
\* most high.
RECURSIVE FilterHigh(_, _)
FilterHigh(mapped, high) ==
    IF mapped = <<>> THEN <<>>
    ELSE IF IsErr(Head(mapped)) \/ Head(mapped)[3] <= high
         THEN <<Head(mapped)>> \o FilterHigh(Tail(mapped), high)
         ELSE FilterHigh(Tail(mapped), high)

\* t and high are Options.
EdgeRangeManager_iterate_for_range(ds, reversed, id, t, high) ==
    IF t # None
    THEN LET h == IF high # None THEN high[1] ELSE MAX_DATETIME
             prefix == build(<<CUuid(id), CType(t[1])>>)
             low_key == build(<<CUuid(id), CType(t[1]), CDateTime(h)>>)
             iterator == TreeRange(ds[EdgeRangeTree(reversed)], low_key)
         IN EdgeRangeManager_iterate(iterator, prefix)
    ELSE LET prefix == build(<<CUuid(id)>>)
             iterator == TreeRange(ds[EdgeRangeTree(reversed)], prefix)
             mapped == EdgeRangeManager_iterate(iterator, prefix)
         IN IF high # None THEN FilterHigh(mapped, high[1]) ELSE mapped

EdgeRangeManager_set(ub, reversed, first_id, t, update_datetime, second_id) ==
    LET key == EdgeRangeManager_key(first_id, t, update_datetime, second_id)
    IN IF reversed
       THEN UberInsert(ub, "reversed_edge_ranges", key, <<>>)
       ELSE UberInsert(ub, "edge_ranges", key, <<>>)

\* A delete that ignores the reversed flag and always queues into edge_ranges.
EdgeRangeManager_delete_forward_only(ub, reversed, first_id, t, update_datetime, second_id) ==
    UberRemove(ub, "edge_ranges",
               EdgeRangeManager_key(first_id, t, update_datetime, second_id))

EdgeRangeManager_delete(ub, reversed, first_id, t, update_datetime, second_id) ==
    IF reversed
    THEN UberRemove(ub, "reversed_edge_ranges",
                    EdgeRangeManager_key(first_id, t, update_datetime, second_id))
    ELSE UberRemove(ub, "edge_ranges",
                    EdgeRangeManager_key(first_id, t, update_datetime, second_id))

\* ------------------------------------------------- VertexPropertyManager
VertexPropertyManager_key(vertex_id, name) ==
    build(<<CUuid(vertex_id), CUnsizedString(name)>>)

\* ((owner_id, name), value) for every property of the owner.
VertexPropertyManager_iterate_for_owner(ds, vertex_id) ==
    LET prefix == build(<<CUuid(vertex_id)>>)
        iterator == TreeScanPrefix(ds["vertex_properties"], prefix)
        decoded(p) ==
            LET owner_id == read_uuid(p[1])
                name == read_unsized_string(owner_id.rest)
            IN <<<<owner_id.v, name.v>>, from_slice(p[2])>>
        item(p) == IF ReadFails(p) THEN ItemErr(p[3]) ELSE decoded(p)
    IN [n \in 1..Len(iterator) |-> item(iterator[n])]

VertexPropertyManager_get(ds, vertex_id, name) ==
    LET got == TreeGet(ds["vertex_properties"], VertexPropertyManager_key(vertex_id, name))
    IN IF got = None THEN None ELSE Some(from_slice(got[1]))

\* Direct write: the new contents of the holder.
VertexPropertyManager_set(ds, vertex_id, name, value) ==
    [ds EXCEPT !["vertex_properties"] =
        TreeInsert(@, VertexPropertyManager_key(vertex_id, name), to_vec(value))]

VertexPropertyManager_delete(ub, vertex_id, name) ==
    UberRemove(ub, "vertex_properties", VertexPropertyManager_key(vertex_id, name))

\* --------------------------------------------------- EdgePropertyManager
EdgePropertyManager_key(outbound_id, t, inbound_id, name) ==
    build(<<CUuid(outbound_id), CType(t), CUuid(inbound_id), CUnsizedString(name)>>)

\* ((outbound_id, t, inbound_id, name), value) for every property of the edge.
EdgePropertyManager_iterate_for_owner(ds, outbound_id, t, inbound_id) ==
    LET prefix == build(<<CUuid(outbound_id), CType(t), CUuid(inbound_id)>>)
        iterator == TreeScanPrefix(ds["edge_properties"], prefix)
        item(p) ==
            IF ReadFails(p) THEN ItemErr(p[3]) ELSE
            LET edge_property_outbound_id == read_uuid(p[1])
                edge_property_t == read_type(edge_property_outbound_id.rest)
                edge_property_inbound_id == read_uuid(edge_property_t.rest)
                edge_property_name == read_unsized_string(edge_property_inbound_id.rest)
            IN <<<<edge_property_outbound_id.v, edge_property_t.v,
                   edge_property_inbound_id.v, edge_property_name.v>>,
                 from_slice(p[2])>>
    IN [n \in 1..Len(iterator) |-> item(iterator[n])]

EdgePropertyManager_get(ds, outbound_id, t, inbound_id, name) ==
    LET got == TreeGet(ds["edge_properties"],
                       EdgePropertyManager_key(outbound_id, t, inbound_id, name))
    IN IF got = None THEN None ELSE Some(from_slice(got[1]))

\* Direct write: the new contents of the holder.
EdgePropertyManager_set(ds, outbound_id, t, inbound_id, name, value) ==
    [ds EXCEPT !["edge_properties"] =
        TreeInsert(@, EdgePropertyManager_key(outbound_id, t, inbound_id, name), to_vec(value))]

EdgePropertyManager_delete(ub, outbound_id, t, inbound_id, name) ==
    UberRemove(ub, "edge_properties",
               EdgePropertyManager_key(outbound_id, t, inbound_id, name))

\* ----------------------------------------------------------- EdgeManager
EdgeManager_key(outbound_id, t, inbound_id) ==
    build(<<CUuid(outbound_id), CType(t), CUuid(inbound_id)>>)

EdgeManager_get(ds, outbound_id, t, inbound_id) ==
    LET got == TreeGet(ds["edges"], EdgeManager_key(outbound_id, t, inbound_id))
    IN IF got = None THEN None ELSE Some(read_datetime(got[1]).v)

\* A set that queues the new record and index entries without first removing
\* the index entries of the stored datetime.
EdgeManager_set_keep_old(ds, ub, outbound_id, t, inbound_id, new_update_datetime) ==
    LET b2 == UberInsert(ub, "edges", EdgeManager_key(outbound_id, t, inbound_id),
                         build(<<CDateTime(new_update_datetime)>>))
        b3 == EdgeRangeManager_set(b2, FALSE, outbound_id, t, new_update_datetime, inbound_id)
    IN EdgeRangeManager_set(b3, TRUE, inbound_id, t, new_update_datetime, outbound_id)

\* The batch after EdgeManager::set.
EdgeManager_set(ds, ub, outbound_id, t, inbound_id, new_update_datetime) ==
    LET stored == EdgeManager_get(ds, outbound_id, t, inbound_id)
        b1 == IF stored # None
              THEN EdgeRangeManager_delete(
                       EdgeRangeManager_delete(ub, FALSE, outbound_id, t, stored[1], inbound_id),
                       TRUE, inbound_id, t, stored[1], outbound_id)
              ELSE ub
        b2 == UberInsert(b1, "edges", EdgeManager_key(outbound_id, t, inbound_id),
                         build(<<CDateTime(new_update_datetime)>>))
        b3 == EdgeRangeManager_set(b2, FALSE, outbound_id, t, new_update_datetime, inbound_id)
    IN EdgeRangeManager_set(b3, TRUE, inbound_id, t, new_update_datetime, outbound_id)

\* Queues the removal of every listed edge property.
RECURSIVE DeleteEdgeProperties(_, _)
DeleteEdgeProperties(ub, items) ==
    IF items = <<>> THEN ub
    ELSE LET k == Head(items)[1]
         IN DeleteEdgeProperties(
                EdgePropertyManager_delete(ub, k[1], k[2], k[3], k[4]), Tail(items))

\* A delete that removes the index entries at the stored datetime, whatever
\* datetime the caller supplied.
EdgeManager_delete_stored(ds, ub, outbound_id, t, inbound_id, update_datetime) ==
    LET stored == EdgeManager_get(ds, outbound_id, t, inbound_id)
        d == IF stored # None THEN stored[1] ELSE update_datetime
        b1 == UberRemove(ub, "edges", EdgeManager_key(outbound_id, t, inbound_id))
        b2 == EdgeRangeManager_delete(b1, FALSE, outbound_id, t, d, inbound_id)
        b3 == EdgeRangeManager_delete(b2, TRUE, inbound_id, t, d, outbound_id)
    IN DeleteEdgeProperties(
           b3, EdgePropertyManager_iterate_for_owner(ds, outbound_id, t, inbound_id))

\* A delete that leaves the edge's properties alone.
EdgeManager_delete_keep_properties(ds, ub, outbound_id, t, inbound_id, update_datetime) ==
    LET b1 == UberRemove(ub, "edges", EdgeManager_key(outbound_id, t, inbound_id))
        b2 == EdgeRangeManager_delete(b1, FALSE, outbound_id, t, update_datetime, inbound_id)
    IN EdgeRangeManager_delete(b2, TRUE, inbound_id, t, update_datetime, outbound_id)

\* The batch after EdgeManager::delete: an Err item of the property scan ends
\* the call there (item?).
EdgeManager_delete(ds, ub, outbound_id, t, inbound_id, update_datetime) ==
    LET b1 == UberRemove(ub, "edges", EdgeManager_key(outbound_id, t, inbound_id))
        b2 == EdgeRangeManager_delete(b1, FALSE, outbound_id, t, update_datetime, inbound_id)
        b3 == EdgeRangeManager_delete(b2, TRUE, inbound_id, t, update_datetime, outbound_id)
    IN DeleteEdgeProperties(
           b3, UntilErr(EdgePropertyManager_iterate_for_owner(ds, outbound_id, t, inbound_id)))

\* The error EdgeManager::delete returns, None for Ok(()).
EdgeManager_delete_err(ds, outbound_id, t, inbound_id) ==
    FirstErr(EdgePropertyManager_iterate_for_owner(ds, outbound_id, t, inbound_id))

\* --------------------------------------------------------- VertexManager
VertexManager_key(id) == build(<<CUuid(id)>>)

VertexManager_exists(ds, id) == TreeGet(ds["vertices"], VertexManager_key(id)) # None

VertexManager_get(ds, id) ==
    LET got == TreeGet(ds["vertices"], VertexManager_key(id))
    IN IF got = None THEN None ELSE Some(read_type(got[1]).v)

\* Direct write: the new contents of the holder.
VertexManager_create(ds, id, t) ==
    [ds EXCEPT !["vertices"] = TreeInsert(@, VertexManager_key(id), build(<<CType(t)>>))]

\* Queues the removal of every listed vertex property.
RECURSIVE DeleteVertexProperties(_, _)
DeleteVertexProperties(ub, items) ==
    IF items = <<>> THEN ub
    ELSE LET k == Head(items)[1]
         IN DeleteVertexProperties(VertexPropertyManager_delete(ub, k[1], k[2]), Tail(items))

\* EdgeManager::delete for every item of a forward-index scan.
\* The loop ends at an Err item (item?) and after an EdgeManager::delete that
\* returned an error (?).
RECURSIVE DeleteForwardEdges(_, _, _)
DeleteForwardEdges(ds, ub, items) ==
    IF items = <<>> THEN ub
    ELSE LET e == Head(items)
         IN IF IsErr(e) THEN ub
            ELSE IF EdgeManager_delete_err(ds, e[1], e[2], e[4]) # None
            THEN EdgeManager_delete(ds, ub, e[1], e[2], e[4], e[3])
            ELSE DeleteForwardEdges(
                     ds, EdgeManager_delete(ds, ub, e[1], e[2], e[4], e[3]), Tail(items))

\* The error that ends the forward loop, None if it runs to its end.
RECURSIVE ForwardEdges_err(_, _)
ForwardEdges_err(ds, items) ==
    IF items = <<>> THEN None
    ELSE LET e == Head(items)
         IN IF IsErr(e) THEN Some(e[1])
            ELSE IF EdgeManager_delete_err(ds, e[1], e[2], e[4]) # None
            THEN EdgeManager_delete_err(ds, e[1], e[2], e[4])
            ELSE ForwardEdges_err(ds, Tail(items))

\* EdgeManager::delete for every item of a reverse-index scan (first is the
\* inbound id, second the outbound id).
RECURSIVE DeleteReversedEdges(_, _, _)
DeleteReversedEdges(ds, ub, items) ==
    IF items = <<>> THEN ub
    ELSE LET e == Head(items)
         IN IF IsErr(e) THEN ub
            ELSE IF EdgeManager_delete_err(ds, e[4], e[2], e[1]) # None
            THEN EdgeManager_delete(ds, ub, e[4], e[2], e[1], e[3])
            ELSE DeleteReversedEdges(
                     ds, EdgeManager_delete(ds, ub, e[4], e[2], e[1], e[3]), Tail(items))

\* The error that ends the reverse loop, None if it runs to its end.
RECURSIVE ReversedEdges_err(_, _)
ReversedEdges_err(ds, items) ==
    IF items = <<>> THEN None
    ELSE LET e == Head(items)
         IN IF IsErr(e) THEN Some(e[1])
            ELSE IF EdgeManager_delete_err(ds, e[4], e[2], e[1]) # None
            THEN EdgeManager_delete_err(ds, e[4], e[2], e[1])
            ELSE ReversedEdges_err(ds, Tail(items))

\* A cascade that scans the forward index only.
VertexManager_delete_forward_only(ds, ub, id) ==
    LET b1 == UberRemove(ub, "vertices", VertexManager_key(id))
        b2 == DeleteVertexProperties(b1, VertexPropertyManager_iterate_for_owner(ds, id))
    IN DeleteForwardEdges(ds, b2, EdgeRangeManager_iterate_for_owner(ds, FALSE, id))

\* A cascade that leaves the vertex record alone.
VertexManager_delete_keep_vertex(ds, ub, id) ==
    LET b2 == DeleteVertexProperties(ub, VertexPropertyManager_iterate_for_owner(ds, id))
        b3 == DeleteForwardEdges(ds, b2, EdgeRangeManager_iterate_for_owner(ds, FALSE, id))
    IN DeleteReversedEdges(ds, b3, EdgeRangeManager_iterate_for_owner(ds, TRUE, id))

\* The error VertexManager::delete returns, None for Ok(()): that of the first
\* of its three loops an error ends.
VertexManager_delete_err(ds, id) ==
    LET properties == FirstErr(VertexPropertyManager_iterate_for_owner(ds, id))
        forward == ForwardEdges_err(ds, EdgeRangeManager_iterate_for_owner(ds, FALSE, id))
    IN IF properties # None THEN properties
       ELSE IF forward # None THEN forward
       ELSE ReversedEdges_err(ds, EdgeRangeManager_iterate_for_owner(ds, TRUE, id))

\* The batch after VertexManager::delete; a loop an error ends is the last
\* one to run.
VertexManager_delete(ds, ub, id) ==
    LET properties == VertexPropertyManager_iterate_for_owner(ds, id)
        forward == EdgeRangeManager_iterate_for_owner(ds, FALSE, id)
        b1 == UberRemove(ub, "vertices", VertexManager_key(id))
        b2 == DeleteVertexProperties(b1, UntilErr(properties))
        b3 == DeleteForwardEdges(ds, b2, forward)
    IN IF FirstErr(properties) # None THEN b2
       ELSE IF ForwardEdges_err(ds, forward) # None THEN b3
       ELSE DeleteReversedEdges(ds, b3, EdgeRangeManager_iterate_for_owner(ds, TRUE, id))

\* ------------------------------------------------- UberBatch::apply
\* The writes a transaction has staged, per keyspace: nothing yet.
EmptyTx == [f \in TreeNameSet |-> {}]

\* An apply_batch that writes through to the live keyspace instead of staging
\* the writes in the transaction.
TxApplyBatch_write_through(ds, t, f, b) ==
    [holder |-> [ds EXCEPT ![f] = ApplyBatch(@, b)], tx |-> t]

\* <tree>.apply_batch(&batch) inside trees.transaction(...): the writes are
\* staged in the transaction; the live keyspaces are untouched.
TxApplyBatch(ds, t, f, b) ==
    [holder |-> ds, tx |-> [t EXCEPT ![f] = {p \in @ : p[1] \notin TreeKeys(b)} \cup b]]

\* The transaction's commit: every staged write of every keyspace at once.
TxCommit(ds, t) == [f \in TreeNameSet |-> ApplyBatch(ds[f], t[f])]

\* The keyspaces after a successful apply of the whole UberBatch.
UberBatchApplied(ds, ub) ==
    [f \in TreeNameSet |-> IF ub[f] = None THEN ds[f] ELSE ApplyBatch(ds[f], ub[f][1])]

\* ------------------------------------------------------------------ state
VARIABLES
    holder,     \* SledHolder: the six live keyspaces
    batch,      \* the writer's UberBatch (after apply: the batch applied)
    tx,         \* writes staged by the transaction of the running apply
    txStep,     \* the keyspace (1..6) the running apply has got to, 0 before the first
    pc,         \* "idle" | "queued" | "applying" | "ok" | "err"
    preImage,   \* the keyspaces when the last apply was called
    observed,   \* what a concurrent reader has read of the keyspaces, if anything
    lastOp,     \* the manager operation last called, with its outcome
    nOps        \* operations called so far

storeVars == <<holder, batch, tx, txStep, pc, preImage, observed, lastOp, nOps>>

VARIABLES
    rangeQuery,  \* the arguments of the last iterate_for_range call, if any
    rangeResult  \* the sequence it yielded

rangeVars == <<rangeQuery, rangeResult>>

\* No range query made.
RangeInit ==
    /\ rangeQuery = <<>>
    /\ rangeResult = <<>>

\* State of one call of map_reduce.
VARIABLES
    driver,      \* the driver's settings
    nVertices,   \* the vertices 1..nVertices the range query matches
    fault,       \* which call fails: [kind, at]
    jobs,        \* the pool's job queue
    workers,     \* per pool thread: [st, job, ppc]
    active,      \* the pool's active_count
    channel,     \* the result channel (unbounded)
    shutdown,    \* messages in the 1-slot shutdown channel
    shutdown_receiver, \* TRUE until the producer closure drops it
    last_id,     \* the producer's last_id (0 = None)
    pages,       \* page queries issued (counted up to MaxPages)
    pages_after_signal, \* page queries started after the shutdown signal was sent
    mrPc,        \* the caller: "off" | "recv" | "shutdown" | "active_count"
                 \*   | "is_empty" | "decide" | "join" | "returned" | "panicked"
    reducibles,  \* buffered values
    recv_err,    \* the Err value just received (0 = none)
    is_idle,     \* the consumer's is_idle
    final_err,   \* final_err (0 = None)
    result       \* the outcome of map_reduce

mrVars == <<driver, nVertices, fault, jobs, workers, active, channel, shutdown,
            shutdown_receiver, last_id, pages, pages_after_signal, mrPc, reducibles,
            recv_err,
            is_idle, final_err, result>>

\* State of one consumed scan of a keyspace.
VARIABLES
    scanQuery,   \* the scan called and its arguments, if any
    scanResult   \* the sequence it yielded

scanVars == <<scanQuery, scanResult>>

\* No scan made.
ScanInit ==
    /\ scanQuery = <<>>
    /\ scanResult = <<>>

\* State of a caller making direct writes.
VARIABLES
    before       \* the keyspaces before the last direct write

directVars == <<before>>

DirectInit == before = EmptyHolder

\* State of one round of building and reading back two keys.
VARIABLES
    codecIn,     \* the keyspace and the two logical tuples, if any
    codecOut     \* their keys and the tuples read back from the keys

codecVars == <<codecIn, codecOut>>

CodecInit ==
    /\ codecIn = <<>>
    /\ codecOut = <<>>

\* Writers, each filling a batch of its own and applying or dropping it.
Writers == {1, 2}

VARIABLES
    batches,     \* per writer: its UberBatch
    queued,      \* per writer: the operations called on its batch, in order
    stale,       \* per writer: another batch was applied since it began filling its own
    committed,   \* the batches applied, in order: [ops, stale]
    dropped      \* the operations of the batch last dropped without apply

writerVars == <<batches, queued, stale, committed, dropped>>

WritersInit ==
    /\ batches = [w \in Writers |-> DefaultUberBatch]
    /\ queued = [w \in Writers |-> <<>>]
    /\ stale = [w \in Writers |-> FALSE]
    /\ committed = <<>>
    /\ dropped = <<>>

\* State of one call of VertexManager::delete during which a read may fail.
VARIABLES
    failing,     \* the read that failed during the call, if any: <<keyspace, key>>
    returned     \* what the call returned, if made: <<None>> for Ok(()), <<Some(e)>> for Err(e)

faultVars == <<failing, returned>>

FaultInit ==
    /\ failing = <<>>
    /\ returned = <<>>

extVars == <<scanVars, directVars, codecVars, writerVars, faultVars>>

\* Nothing but the store, the range query and map_reduce is in use.
ExtOff == ScanInit /\ DirectInit /\ CodecInit /\ WritersInit /\ FaultInit

\* res: "ok" (took effect), "err" (apply failed) or "queued" (not applied yet).
Op(kind, o, t, i, d, res) ==
    [kind |-> kind, o |-> o, t |-> t, i |-> i, d |-> d, res |-> res]
NoOp == Op("none", 0, <<>>, 0, 0, "ok")

StoreInit ==
    /\ holder = EmptyHolder
    /\ batch = DefaultUberBatch
    /\ tx = EmptyTx
    /\ txStep = 0
    /\ pc = "idle"
    /\ preImage = EmptyHolder
    /\ observed = {}
    /\ lastOp = NoOp
    /\ nOps = 0

\* The writer is between operations.
Ready == pc \in {"idle", "ok", "err"} /\ nOps < MaxOps

\* A direct (non-batched) write.
Direct(newHolder, op) ==
    /\ Ready
    /\ holder' = newHolder
    /\ batch' = DefaultUberBatch
    /\ pc' = "idle"
    /\ preImage' = EmptyHolder
    /\ observed' = {}
    /\ lastOp' = op
    /\ nOps' = nOps + 1
    /\ UNCHANGED <<tx, txStep>>
    /\ UNCHANGED <<rangeVars, mrVars, extVars>>

\* An operation queued into a fresh batch.
Queued(newBatch, op) ==
    /\ Ready
    /\ batch' = newBatch
    /\ pc' = "queued"
    /\ preImage' = holder
    /\ observed' = {}
    /\ lastOp' = op
    /\ nOps' = nOps + 1
    /\ UNCHANGED <<holder, tx, txStep>>
    /\ UNCHANGED <<rangeVars, mrVars, extVars>>

VertexCreate ==
    \E id \in Uuids, t \in VertexTypes :
        Direct(VertexManager_create(holder, id, t), Op("VertexManager_create", id, t, 0, 0, "ok"))

VertexPropertySet ==
    \E id \in Uuids, name \in Names, value \in JsonValues :
        Direct(VertexPropertyManager_set(holder, id, name, value),
               Op("VertexPropertyManager_set", id, name, 0, value, "ok"))

EdgePropertySet ==
    \E o \in Uuids, t \in EdgeTypes, i \in Uuids, name \in Names, value \in JsonValues :
        Direct(EdgePropertyManager_set(holder, o, t, i, name, value),
               Op("EdgePropertyManager_set", o, t, i, value, "ok"))

EdgeSet ==
    \E o \in Uuids, t \in EdgeTypes, i \in Uuids, d \in DateTimes :
        Queued(EdgeManager_set(holder, DefaultUberBatch, o, t, i, d),
               Op("EdgeManager_set", o, t, i, d, "queued"))

\* Direct edge deletion: the datetime is the one EdgeManager::get returns.
EdgeDelete ==
    \E o \in Uuids, t \in EdgeTypes, i \in Uuids :
        LET stored == EdgeManager_get(holder, o, t, i)
        IN /\ stored # None
           /\ Queued(EdgeManager_delete(holder, DefaultUberBatch, o, t, i, stored[1]),
                     Op("EdgeManager_delete", o, t, i, stored[1], "queued"))

VertexDelete ==
    \E id \in Uuids :
        Queued(VertexManager_delete(holder, DefaultUberBatch, id),
               Op("VertexManager_delete", id, <<>>, 0, 0, "queued"))

\* The first keyspace after the n-th (in the order apply goes through them)
\* that has a batch; 7 when there is none.
NextBatched(ub, n) ==
    IF \E m \in (n + 1)..6 : ub[TreeNames[m]] # None
    THEN CHOOSE m \in (n + 1)..6 :
            /\ ub[TreeNames[m]] # None
            /\ \A k \in (n + 1)..(m - 1) : ub[TreeNames[k]] = None
    ELSE 7

\* UberBatch::apply, one apply_batch call of the transaction closure at a
\* time; keyspaces without a batch are passed over.
ApplyStep ==
    /\ pc \in {"queued", "applying"}
    /\ NextBatched(batch, txStep) <= 6
    /\ LET m == NextBatched(batch, txStep)
           f == TreeNames[m]
           r == TxApplyBatch(holder, tx, f, batch[f][1])
       IN /\ holder' = r.holder
          /\ tx' = r.tx
          /\ txStep' = m
    /\ pc' = "applying"
    /\ UNCHANGED <<batch, preImage, observed, lastOp, nOps>>
    /\ UNCHANGED <<rangeVars, mrVars, extVars>>

\* The closure returned Ok: the transaction commits and apply returns Ok.
ApplyCommit ==
    /\ pc \in {"queued", "applying"}
    /\ NextBatched(batch, txStep) = 7
    /\ holder' = TxCommit(holder, tx)
    /\ tx' = EmptyTx
    /\ txStep' = 0
    /\ pc' = "ok"
    /\ lastOp' = [lastOp EXCEPT !.res = "ok"]
    /\ UNCHANGED <<batch, preImage, observed, nOps>>
    /\ UNCHANGED <<rangeVars, mrVars, extVars>>

\* A store failure in an apply_batch or in the commit: the transaction
\* aborts and apply returns the error.
ApplyFail ==
    /\ pc = "applying"
    /\ tx' = EmptyTx
    /\ txStep' = 0
    /\ pc' = "err"
    /\ lastOp' = [lastOp EXCEPT !.res = "err"]
    /\ UNCHANGED <<holder, batch, preImage, observed, nOps>>
    /\ UNCHANGED <<rangeVars, mrVars, extVars>>

\* A reader on another thread reads the keyspaces while apply runs or right
\* after it returned.
Read ==
    /\ pc \in {"applying", "ok"}
    /\ observed = {}
    /\ observed' = {holder}
    /\ UNCHANGED <<holder, batch, tx, txStep, pc, preImage, lastOp, nOps>>
    /\ UNCHANGED <<rangeVars, mrVars, extVars>>

StoreNext ==
    \/ VertexCreate
    \/ VertexPropertySet
    \/ EdgePropertySet
    \/ EdgeSet
    \/ EdgeDelete
    \/ VertexDelete
    \/ ApplyStep
    \/ ApplyCommit
    \/ ApplyFail
    \/ Read

\* ------------------------------------------------ range-query model
\* EdgeRangeManager::set into a fresh batch, applied at once: one more entry
\* of the forward index.
IndexInsert ==
    /\ rangeQuery = <<>>
    /\ Cardinality(holder["edge_ranges"]) < MaxEntries
    /\ \E first_id \in Uuids, t \in Types, d \in RangeDateTimes, second_id \in Uuids :
          holder' = UberBatchApplied(
              holder, EdgeRangeManager_set(DefaultUberBatch, FALSE, first_id, t, d, second_id))
    /\ UNCHANGED <<batch, tx, txStep, pc, preImage, observed, lastOp, nOps>>
    /\ UNCHANGED <<rangeVars, mrVars, extVars>>

\* A call of iterate_for_range on the forward index, consumed to its end.
RangeQuery ==
    /\ rangeQuery = <<>>
    /\ \E id \in Uuids,
          t \in {None} \cup {Some(x) : x \in Types},
          high \in {None} \cup {Some(x) : x \in RangeDateTimes} :
        /\ rangeQuery' = <<[id |-> id, t |-> t, high |-> high]>>
        /\ rangeResult' = EdgeRangeManager_iterate_for_range(holder, FALSE, id, t, high)
    /\ UNCHANGED <<storeVars, mrVars, extVars>>

RangeNext ==
    \/ IndexInsert
    \/ RangeQuery

\* ----------------------------------------------- direct-write model
\* A direct write; the keyspaces before it are kept for comparison.
DirectWrite(newHolder, op) ==
    /\ Ready
    /\ holder' = newHolder
    /\ before' = holder
    /\ lastOp' = op
    /\ nOps' = nOps + 1
    /\ UNCHANGED <<batch, tx, txStep, pc, preImage, observed>>
    /\ UNCHANGED <<rangeVars, mrVars, scanVars, codecVars, writerVars, faultVars>>

DirectVertexCreate ==
    \E id \in Uuids, t \in Types :
        DirectWrite(VertexManager_create(holder, id, t),
                    Op("VertexManager_create", id, t, 0, 0, "ok"))

DirectVertexPropertySet ==
    \E id \in Uuids, name \in Names, value \in DirectValues :
        DirectWrite(VertexPropertyManager_set(holder, id, name, value),
                    Op("VertexPropertyManager_set", id, name, 0, value, "ok"))

DirectEdgePropertySet ==
    \E o \in Uuids, t \in EdgeTypes, i \in Uuids, name \in Names, value \in DirectValues :
        DirectWrite(EdgePropertyManager_set(holder, o, t, i, name, value),
                    Op("EdgePropertyManager_set", o, t, i, value, "ok"))

DirectNext ==
    \/ DirectVertexCreate
    \/ DirectVertexPropertySet
    \/ DirectEdgePropertySet

\* ------------------------------------------------------- batch model
\* Stores the managers have built: two vertices with a vertex property, and
\* edges set one batch at a time, each with an edge property.
WithVertex(ds, id) == VertexManager_create(ds, id, TypeAB)
WithEdge(ds, o, t, i, d) ==
    EdgePropertyManager_set(
        UberBatchApplied(ds, EdgeManager_set(ds, DefaultUberBatch, o, t, i, d)),
        o, t, i, <<110>>, 7)
Populated == VertexPropertyManager_set(WithVertex(WithVertex(EmptyHolder, 1), 2), 1, <<110>>, 7)
OneEdge == WithEdge(Populated, 1, TypeA, 2, 1)
ThreeEdges == WithEdge(WithEdge(OneEdge, 2, TypeA, 1, 1), 1, TypeAB, 2, 2)
InitialStores == {Populated, OneEdge, ThreeEdges}

\* The state before any writer has called anything, over one of the stores.
WritersStart ==
    /\ holder \in InitialStores
    /\ batch = DefaultUberBatch
    /\ tx = EmptyTx
    /\ txStep = 0
    /\ pc = "idle"
    /\ preImage = EmptyHolder
    /\ observed = {}
    /\ lastOp = NoOp
    /\ nOps = 0

\* A queued operation that also writes the batch through to the keyspaces.
BQueue_write_through(w, newBatch, op) ==
    /\ batches' = [batches EXCEPT ![w] = newBatch]
    /\ queued' = [queued EXCEPT ![w] = Append(@, op)]
    /\ nOps' = nOps + 1
    /\ holder' = UberBatchApplied(holder, newBatch)
    /\ UNCHANGED <<batch, tx, txStep, pc, preImage, observed, lastOp>>
    /\ UNCHANGED <<stale, committed, dropped>>
    /\ UNCHANGED <<rangeVars, mrVars, scanVars, directVars, codecVars, faultVars>>

\* An operation called on the writer's batch: the batch takes the writes,
\* the keyspaces are read but not written.
BQueue(w, newBatch, op) ==
    /\ batches' = [batches EXCEPT ![w] = newBatch]
    /\ queued' = [queued EXCEPT ![w] = Append(@, op)]
    /\ nOps' = nOps + 1
    /\ UNCHANGED <<holder, batch, tx, txStep, pc, preImage, observed, lastOp>>
    /\ UNCHANGED <<stale, committed, dropped>>
    /\ UNCHANGED <<rangeVars, mrVars, scanVars, directVars, codecVars, faultVars>>

\* A writer may call one more operation; the second writer starts after the
\* first.
BReady(w, max) ==
    /\ nOps < max
    /\ w = 2 => queued[1] # <<>> \/ committed # <<>>

BEdgeSet(w, max) ==
    /\ BReady(w, max)
    /\ \E o \in Uuids, t \in EdgeTypes, i \in Uuids, d \in DateTimes :
          BQueue(w, EdgeManager_set(holder, batches[w], o, t, i, d),
                 Op("EdgeManager_set", o, t, i, d, "queued"))

\* EdgeManager::delete of a stored edge, with whatever datetime the caller
\* supplies.
BEdgeDelete(w, max) ==
    /\ BReady(w, max)
    /\ \E o \in Uuids, t \in Types, i \in Uuids, d \in DateTimes :
          /\ EdgeManager_get(holder, o, t, i) # None
          /\ BQueue(w, EdgeManager_delete(holder, batches[w], o, t, i, d),
                    Op("EdgeManager_delete", o, t, i, d, "queued"))

BVertexDelete(w, max) ==
    /\ BReady(w, max)
    /\ \E id \in Uuids :
          BQueue(w, VertexManager_delete(holder, batches[w], id),
                 Op("VertexManager_delete", id, <<>>, 0, 0, "queued"))

\* batch.apply(&holder) returning Ok: the whole batch takes effect at once.
BApply(w) ==
    /\ queued[w] # <<>>
    /\ holder' = UberBatchApplied(holder, batches[w])
    /\ preImage' = holder
    /\ committed' = Append(committed, [ops |-> queued[w], stale |-> stale[w]])
    /\ batches' = [batches EXCEPT ![w] = DefaultUberBatch]
    /\ queued' = [queued EXCEPT ![w] = <<>>]
    /\ stale' = [x \in Writers |-> x # w /\ (stale[x] \/ queued[x] # <<>>)]
    /\ UNCHANGED <<batch, tx, txStep, pc, observed, lastOp, nOps, dropped>>
    /\ UNCHANGED <<rangeVars, mrVars, scanVars, directVars, codecVars, faultVars>>

BatchNext ==
    \/ \E w \in Writers : BEdgeSet(w, MaxBatchOps)
    \/ \E w \in Writers : BEdgeDelete(w, MaxBatchOps)
    \/ \E w \in Writers : BVertexDelete(w, MaxBatchOps)
    \/ \E w \in Writers : BApply(w)

\* ------------------------------------------------ deferred-write model
\* The index and property operations that only queue.
BEdgeRangeSet(w, max) ==
    /\ BReady(w, max)
    /\ \E reversed \in BOOLEAN, first_id \in Uuids, t \in EdgeTypes, d \in DateTimes,
          second_id \in Uuids :
          BQueue(w, EdgeRangeManager_set(batches[w], reversed, first_id, t, d, second_id),
                 Op(IF reversed THEN "EdgeRangeManager_set_reversed"
                                ELSE "EdgeRangeManager_set",
                    first_id, t, second_id, d, "queued"))

BEdgeRangeDelete(w, max) ==
    /\ BReady(w, max)
    /\ \E reversed \in BOOLEAN, first_id \in Uuids, t \in EdgeTypes, d \in DateTimes,
          second_id \in Uuids :
          BQueue(w, EdgeRangeManager_delete(batches[w], reversed, first_id, t, d, second_id),
                 Op(IF reversed THEN "EdgeRangeManager_delete_reversed"
                                ELSE "EdgeRangeManager_delete",
                    first_id, t, second_id, d, "queued"))

BVertexPropertyDelete(w, max) ==
    /\ BReady(w, max)
    /\ \E id \in Uuids, name \in Names :
          BQueue(w, VertexPropertyManager_delete(batches[w], id, name),
                 Op("VertexPropertyManager_delete", id, name, 0, 0, "queued"))

BEdgePropertyDelete(w, max) ==
    /\ BReady(w, max)
    /\ \E o \in Uuids, t \in EdgeTypes, i \in Uuids, name \in Names :
          BQueue(w, EdgePropertyManager_delete(batches[w], o, t, i, name),
                 Op("EdgePropertyManager_delete", o, t, i, 0, "queued"))

\* The batch goes out of scope without apply.
BDrop(w) ==
    /\ queued[w] # <<>>
    /\ dropped' = queued[w]
    /\ batches' = [batches EXCEPT ![w] = DefaultUberBatch]
    /\ queued' = [queued EXCEPT ![w] = <<>>]
    /\ stale' = [stale EXCEPT ![w] = FALSE]
    /\ UNCHANGED <<storeVars, committed>>
    /\ UNCHANGED <<rangeVars, mrVars, scanVars, directVars, codecVars, faultVars>>

\* One writer calling every operation that takes a batch.
DeferredNext ==
    \/ BEdgeSet(1, MaxDeferredOps)
    \/ BEdgeDelete(1, MaxDeferredOps)
    \/ BVertexDelete(1, MaxDeferredOps)
    \/ BEdgeRangeSet(1, MaxDeferredOps)
    \/ BEdgeRangeDelete(1, MaxDeferredOps)
    \/ BVertexPropertyDelete(1, MaxDeferredOps)
    \/ BEdgePropertyDelete(1, MaxDeferredOps)
    \/ BApply(1)
    \/ BDrop(1)

\* --------------------------------------------------------- key model
\* The keys of two tuples and what the scans read back from them.
Coded(keyspace, a, b, ka, kb, da, db) ==
    /\ codecIn = <<>>
    /\ codecIn' = <<[keyspace |-> keyspace, a |-> a, b |-> b]>>
    /\ codecOut' = <<[ka |-> ka, kb |-> kb, da |-> da, db |-> db]>>
    /\ UNCHANGED <<storeVars, rangeVars, mrVars, scanVars, directVars, writerVars, faultVars>>

\* What EdgeRangeManager::iterate reads from one key.
EdgeRangeItemOf(k) == EdgeRangeManager_iterate(<< <<k, <<>>>> >>, <<>>)[1]

\* EdgeRangeManager::key of two (first, type, datetime, second) tuples, read
\* back by EdgeRangeManager::iterate.
CodecEdgeRange ==
    \E a, b \in Uuids \X CodecTypes \X DateTimes \X Uuids :
        LET ka == EdgeRangeManager_key(a[1], a[2], a[3], a[4])
            kb == EdgeRangeManager_key(b[1], b[2], b[3], b[4])
        IN Coded("edge_ranges", a, b, ka, kb, EdgeRangeItemOf(ka), EdgeRangeItemOf(kb))

\* What EdgePropertyManager::iterate_for_owner reads from one key.
EdgePropertyItemOf(k, o, t, i) ==
    EdgePropertyManager_iterate_for_owner(
        [EmptyHolder EXCEPT !["edge_properties"] = {<<k, to_vec(0)>>}], o, t, i)[1][1]

\* EdgePropertyManager::key of two (outbound, type, inbound, name) tuples,
\* read back by EdgePropertyManager::iterate_for_owner.
CodecEdgeProperty ==
    \E a, b \in Uuids \X CodecTypes \X Uuids \X ScanNames :
        LET ka == EdgePropertyManager_key(a[1], a[2], a[3], a[4])
            kb == EdgePropertyManager_key(b[1], b[2], b[3], b[4])
        IN Coded("edge_properties", a, b, ka, kb,
                 EdgePropertyItemOf(ka, a[1], a[2], a[3]),
                 EdgePropertyItemOf(kb, b[1], b[2], b[3]))

CodecNext ==
    \/ CodecEdgeRange
    \/ CodecEdgeProperty

\* ------------------------------------------------------- scan model
\* Entries of the four scanned keyspaces together.
ScannedEntries ==
    Cardinality(holder["edge_ranges"]) + Cardinality(holder["reversed_edge_ranges"])
        + Cardinality(holder["vertex_properties"]) + Cardinality(holder["edge_properties"])

\* The store may still grow before the scan.
ScanFilling == scanQuery = <<>> /\ ScannedEntries < MaxScanEntries

\* The holder changes, nothing else of the store does.
ScanWrite(newHolder) ==
    /\ ScanFilling
    /\ holder' = newHolder
    /\ UNCHANGED <<batch, tx, txStep, pc, preImage, observed, lastOp, nOps>>
    /\ UNCHANGED <<rangeVars, mrVars, extVars>>

\* EdgeRangeManager::set on either index, into a fresh batch, applied.
ScanIndexInsert ==
    \E reversed \in BOOLEAN, first_id \in Uuids, t \in Types, d \in DateTimes,
       second_id \in Uuids :
        ScanWrite(UberBatchApplied(
            holder, EdgeRangeManager_set(DefaultUberBatch, reversed, first_id, t, d, second_id)))

\* VertexPropertyManager::set.
ScanVertexPropertySet ==
    \E id \in Uuids, name \in ScanNames, value \in JsonValues :
        ScanWrite(VertexPropertyManager_set(holder, id, name, value))

\* EdgePropertyManager::set.
ScanEdgePropertySet ==
    \E o \in Uuids, t \in Types, i \in Uuids, name \in Names, value \in JsonValues :
        ScanWrite(EdgePropertyManager_set(holder, o, t, i, name, value))

\* The call made: which scan, with which arguments.
ScanCall(scan, reversed, id, t, high, i) ==
    [scan |-> scan, reversed |-> reversed, id |-> id, t |-> t, high |-> high, i |-> i]

\* One scan, consumed to its end.
Scanned(call, yielded) ==
    /\ scanQuery = <<>>
    /\ scanQuery' = <<call>>
    /\ scanResult' = yielded
    /\ UNCHANGED <<storeVars, rangeVars, mrVars, directVars, codecVars, writerVars, faultVars>>

ScanEdgeRangeForOwner ==
    \E reversed \in BOOLEAN, id \in Uuids :
        Scanned(ScanCall("EdgeRangeManager_iterate_for_owner", reversed, id, None, None, 0),
                EdgeRangeManager_iterate_for_owner(holder, reversed, id))

ScanEdgeRangeForRange ==
    \E reversed \in BOOLEAN, id \in Uuids,
       t \in {None} \cup {Some(x) : x \in Types},
       high \in {None} \cup {Some(x) : x \in ScanHighs} :
        Scanned(ScanCall("EdgeRangeManager_iterate_for_range", reversed, id, t, high, 0),
                EdgeRangeManager_iterate_for_range(holder, reversed, id, t, high))

ScanVertexPropertiesForOwner ==
    \E id \in Uuids :
        Scanned(ScanCall("VertexPropertyManager_iterate_for_owner", FALSE, id, None, None, 0),
                VertexPropertyManager_iterate_for_owner(holder, id))

ScanEdgePropertiesForOwner ==
    \E o \in Uuids, t \in Types, i \in Uuids :
        Scanned(ScanCall("EdgePropertyManager_iterate_for_owner", FALSE, o, Some(t), None, i),
                EdgePropertyManager_iterate_for_owner(holder, o, t, i))

ScanNext ==
    \/ ScanIndexInsert
    \/ ScanVertexPropertySet
    \/ ScanEdgePropertySet
    \/ ScanEdgeRangeForOwner
    \/ ScanEdgeRangeForRange
    \/ ScanVertexPropertiesForOwner
    \/ ScanEdgePropertiesForOwner

\* ====================================================== map_reduce
\* Defaults of MapReduceDriver.
DEFAULT_NUM_WORKERS == 8
DEFAULT_QUERY_LIMIT == 65535
DEFAULT_REDUCER_CHUNK_SIZE == 255

Min(a, b) == IF a < b THEN a ELSE b

\* A driver that overrides none of the settings.
DefaultDriver ==
    [num_workers |-> DEFAULT_NUM_WORKERS,
     query_limit |-> DEFAULT_QUERY_LIMIT,
     reducer_chunk_size |-> DEFAULT_REDUCER_CHUNK_SIZE]

\* Threads the pool can have: ThreadPool::new(min(num_workers, 2)).
MaxPoolSize == 2
PoolThreads == 1..MaxPoolSize

\* Results travelling on the result channel: Ok(value) or Err(error).
Ok(v) == [ok |-> TRUE, v |-> v]
Err(e) == [ok |-> FALSE, v |-> e]
\* The errors a faulty map, reduce or page query returns.
MapError == 1
ReduceError == 2
QueryError == 3

\* Jobs handed to the pool.
ProducerJob == [kind |-> "producer", arg |-> <<>>]
MapJob(vertex) == [kind |-> "map", arg |-> <<vertex>>]
\* A reduce job that is handed the drained values but the first.
ReduceJob_tail(values) == [kind |-> "reduce", arg |-> Tail(values)]
ReduceJob(values) == [kind |-> "reduce", arg |-> values]
NoJob == [kind |-> "none", arg |-> <<>>]

\* What map_reduce returned: nothing yet, Ok(value), Ok(Null), Err(error),
\* or a panic of the calling thread.
Outcome(kind, v) == [kind |-> kind, v |-> v]

IdleWorker == [st |-> "idle", job |-> NoJob, ppc |-> "none"]
NoFault == [kind |-> "none", at |-> 0]

\* The settings the code derives from the driver.
PoolSize == Min(driver.num_workers, 2)
QueryLimit == Min(driver.query_limit, 1)
ReducerChunkSize == Min(driver.reducer_chunk_size, 2)

\* map_reduce not called.
MROff ==
    /\ driver = DefaultDriver
    /\ nVertices = 0
    /\ fault = NoFault
    /\ jobs = <<>>
    /\ workers = [w \in PoolThreads |-> IdleWorker]
    /\ active = 0
    /\ channel = <<>>
    /\ shutdown = 0
    /\ shutdown_receiver = TRUE
    /\ last_id = 0
    /\ pages = 0
    /\ pages_after_signal = 0
    /\ mrPc = "off"
    /\ reducibles = <<>>
    /\ recv_err = 0
    /\ is_idle = FALSE
    /\ final_err = 0
    /\ result = Outcome("none", 0)

\* The faults of a run over n vertices: none, the map of one vertex, every
\* reduce, or one page query.
Faults(n) ==
    {NoFault}
        \cup {[kind |-> "map", at |-> k] : k \in 1..n}
        \cup {[kind |-> "reduce", at |-> 0]}
        \cup {[kind |-> "query", at |-> q] : q \in 1..(n + 1)}

\* The settings a driver may override: one worker or the default, a page of
\* no rows or the default, chunks of none, one, two values or the default.
DriverConfigs ==
    [num_workers : {1, DEFAULT_NUM_WORKERS},
     query_limit : {0, DEFAULT_QUERY_LIMIT},
     reducer_chunk_size : {0, 1, 2, DEFAULT_REDUCER_CHUNK_SIZE}]

\* The page counter stops counting past every page a faulty query can be.
MaxPages == MaxVertices + 2

\* map_reduce has created the pool and the channels, handed the producer
\* to the pool and reached its consumer loop.
MRStart(drivers) ==
    /\ driver \in drivers
    /\ nVertices \in 0..MaxVertices
    /\ fault \in Faults(nVertices)
    /\ jobs = <<ProducerJob>>
    /\ workers = [w \in PoolThreads |-> IdleWorker]
    /\ active = 0
    /\ channel = <<>>
    /\ shutdown = 0
    /\ shutdown_receiver = TRUE
    /\ last_id = 0
    /\ pages = 0
    /\ pages_after_signal = 0
    /\ mrPc = "recv"
    /\ reducibles = <<>>
    /\ recv_err = 0
    /\ is_idle = FALSE
    /\ final_err = 0
    /\ result = Outcome("none", 0)

\* A driver that overrides nothing.
MRInit == MRStart({DefaultDriver})

\* trans.get_vertices(RangeVertexQuery { limit, t: None, start_id }): the
\* first `limit` vertices after start_id, in id order.
get_vertices(limit, start_id) ==
    [n \in 1..Min(limit, nVertices - start_id) |-> start_id + n]

\* driver.map(vertex): 1, or the error of the faulty vertex.
driver_map(vertex) ==
    IF fault.kind = "map" /\ fault.at = vertex THEN Err(MapError) ELSE Ok(1)

RECURSIVE Sum(_)
Sum(values) == IF values = <<>> THEN 0 ELSE Head(values) + Sum(Tail(values))

\* driver.reduce(values): the sum, or the error of a faulty reduce.
driver_reduce(values) ==
    IF fault.kind = "reduce" THEN Err(ReduceError) ELSE Ok(Sum(values))

\* ------------------------------------------------------ pool threads
\* A pool thread takes the next job off the queue and counts itself active.
WorkerTake(w) ==
    /\ w <= PoolSize
    /\ workers[w].st = "idle"
    /\ jobs # <<>>
    /\ workers' = [workers EXCEPT ![w] =
            [st |-> "run", job |-> Head(jobs),
             ppc |-> IF Head(jobs).kind = "producer" THEN "check" ELSE "none"]]
    /\ jobs' = Tail(jobs)
    /\ active' = active + 1
    /\ UNCHANGED <<driver, nVertices, fault, channel, shutdown, shutdown_receiver,
                   last_id, pages, pages_after_signal, mrPc, reducibles, recv_err, is_idle, final_err, result>>
    /\ UNCHANGED <<storeVars, rangeVars, extVars>>

\* A map or reduce job returned.
Returned(w) == [workers EXCEPT ![w] = [st |-> "fin", job |-> NoJob, ppc |-> "none"]]
\* The producer returned; its closure still holds shutdown_receiver.
ProducerReturned(w) == [workers EXCEPT ![w] = [st |-> "drop", job |-> NoJob, ppc |-> "none"]]

\* A producer that never looks at the shutdown channel.
ProducerCheck_ignore(w) ==
    /\ workers[w].st = "run"
    /\ workers[w].job.kind = "producer"
    /\ workers[w].ppc = "check"
    /\ workers' = [workers EXCEPT ![w].ppc = "query"]
    /\ UNCHANGED <<driver, nVertices, fault, jobs, active, channel, last_id, pages,
                   pages_after_signal, shutdown, shutdown_receiver,
                   mrPc, reducibles, recv_err, is_idle, final_err, result>>
    /\ UNCHANGED <<storeVars, rangeVars, extVars>>

\* Producer, top of the loop: shutdown_receiver.try_recv().
ProducerCheck(w) ==
    /\ workers[w].st = "run"
    /\ workers[w].job.kind = "producer"
    /\ workers[w].ppc = "check"
    /\ IF shutdown > 0
       THEN /\ shutdown' = shutdown - 1
            /\ workers' = ProducerReturned(w)
       ELSE /\ workers' = [workers EXCEPT ![w].ppc = "query"]
            /\ UNCHANGED shutdown
    /\ UNCHANGED <<driver, nVertices, fault, jobs, active, channel, last_id, pages, pages_after_signal,
                   shutdown_receiver,
                   mrPc, reducibles, recv_err, is_idle, final_err, result>>
    /\ UNCHANGED <<storeVars, rangeVars, extVars>>

\* The map jobs of a page, in order.
MapJobs(vertices) == [n \in 1..Len(vertices) |-> MapJob(vertices[n])]

\* Producer, rest of the loop body: one page query, a map job per vertex of
\* the page, and the return after the last page.
ProducerPage(w) ==
    /\ workers[w].st = "run"
    /\ workers[w].job.kind = "producer"
    /\ workers[w].ppc = "query"
    /\ pages' = IF pages < MaxPages THEN pages + 1 ELSE pages
    /\ pages_after_signal' = IF final_err # 0 /\ pages_after_signal < 2
                              THEN pages_after_signal + 1
                              ELSE pages_after_signal
    /\ IF fault.kind = "query" /\ fault.at = pages + 1
       THEN /\ channel' = Append(channel, Err(QueryError))
            /\ workers' = ProducerReturned(w)
            /\ UNCHANGED <<jobs, last_id>>
       ELSE LET vertices == get_vertices(QueryLimit, last_id)
                is_last_query == Len(vertices) < QueryLimit
            IN /\ last_id' = IF vertices # <<>> THEN vertices[Len(vertices)] ELSE last_id
               /\ jobs' = jobs \o MapJobs(vertices)
               /\ workers' = IF is_last_query
                             THEN ProducerReturned(w)
                             ELSE [workers EXCEPT ![w].ppc = "check"]
               /\ UNCHANGED channel
    /\ UNCHANGED <<driver, nVertices, fault, active, shutdown, shutdown_receiver,
                   mrPc, reducibles,
                   recv_err, is_idle, final_err, result>>
    /\ UNCHANGED <<storeVars, rangeVars, extVars>>

\* The producer's closure is dropped, and shutdown_receiver with it.
ProducerDrop(w) ==
    /\ workers[w].st = "drop"
    /\ workers' = [workers EXCEPT ![w].st = "fin"]
    /\ shutdown_receiver' = FALSE
    /\ UNCHANGED <<driver, nVertices, fault, jobs, active, channel, shutdown, last_id,
                   pages, pages_after_signal, mrPc, reducibles, recv_err, is_idle, final_err, result>>
    /\ UNCHANGED <<storeVars, rangeVars, extVars>>

\* A map job: sender.send(driver.map(vertex)).
MapRun(w) ==
    /\ workers[w].st = "run"
    /\ workers[w].job.kind = "map"
    /\ channel' = Append(channel, driver_map(workers[w].job.arg[1]))
    /\ workers' = Returned(w)
    /\ UNCHANGED <<driver, nVertices, fault, jobs, active, shutdown, shutdown_receiver,
                   last_id, pages, pages_after_signal, mrPc, reducibles, recv_err, is_idle, final_err, result>>
    /\ UNCHANGED <<storeVars, rangeVars, extVars>>

\* A reduce job: sender.send(driver.reduce(reducibles_chunk)).
ReduceRun(w) ==
    /\ workers[w].st = "run"
    /\ workers[w].job.kind = "reduce"
    /\ channel' = Append(channel, driver_reduce(workers[w].job.arg))
    /\ workers' = Returned(w)
    /\ UNCHANGED <<driver, nVertices, fault, jobs, active, shutdown, shutdown_receiver,
                   last_id, pages, pages_after_signal, mrPc, reducibles, recv_err, is_idle, final_err, result>>
    /\ UNCHANGED <<storeVars, rangeVars, extVars>>

\* After the job the pool thread counts itself inactive again.
WorkerFinish(w) ==
    /\ workers[w].st = "fin"
    /\ workers' = [workers EXCEPT ![w] = IdleWorker]
    /\ active' = active - 1
    /\ UNCHANGED <<driver, nVertices, fault, jobs, channel, shutdown, shutdown_receiver,
                   last_id, pages, pages_after_signal, mrPc, reducibles, recv_err, is_idle, final_err, result>>
    /\ UNCHANGED <<storeVars, rangeVars, extVars>>

\* ------------------------------------------------------ consumer loop
\* receiver.recv(): blocks while the channel is empty (map_reduce itself
\* keeps a sender, so the channel never disconnects).
ConsumerRecv ==
    /\ mrPc = "recv"
    /\ channel # <<>>
    /\ channel' = Tail(channel)
    /\ IF Head(channel).ok
       THEN /\ reducibles' = Append(reducibles, Head(channel).v)
            /\ mrPc' = "active_count"
            /\ UNCHANGED recv_err
       ELSE /\ recv_err' = Head(channel).v
            /\ mrPc' = "shutdown"
            /\ UNCHANGED reducibles
    /\ UNCHANGED <<driver, nVertices, fault, jobs, workers, active, shutdown,
                   shutdown_receiver, last_id, pages, pages_after_signal, is_idle, final_err, result>>
    /\ UNCHANGED <<storeVars, rangeVars, extVars>>

\* shutdown_sender.send(()).unwrap(), final_err = Some(err), break. The send
\* fails, and unwrap panics, when the receiver has been dropped.
ConsumerShutdown ==
    /\ mrPc = "shutdown"
    /\ IF shutdown_receiver
       THEN /\ shutdown' = shutdown + 1
            /\ final_err' = recv_err
            /\ mrPc' = "join"
            /\ UNCHANGED result
       ELSE /\ mrPc' = "panicked"
            /\ result' = Outcome("panic", 0)
            /\ UNCHANGED <<shutdown, final_err>>
    /\ UNCHANGED <<driver, nVertices, fault, jobs, workers, active, channel,
                   shutdown_receiver, last_id, pages, pages_after_signal, reducibles, recv_err, is_idle>>
    /\ UNCHANGED <<storeVars, rangeVars, extVars>>

\* pool.active_count() == 0, the left operand of is_idle.
ConsumerActiveCount ==
    /\ mrPc = "active_count"
    /\ is_idle' = (active = 0)
    /\ mrPc' = IF active = 0 THEN "is_empty" ELSE "decide"
    /\ UNCHANGED <<driver, nVertices, fault, jobs, workers, active, channel, shutdown,
                   shutdown_receiver, last_id, pages, pages_after_signal, reducibles, recv_err, final_err, result>>
    /\ UNCHANGED <<storeVars, rangeVars, extVars>>

\* receiver.is_empty(), the right operand of is_idle.
ConsumerIsEmpty ==
    /\ mrPc = "is_empty"
    /\ is_idle' = (channel = <<>>)
    /\ mrPc' = "decide"
    /\ UNCHANGED <<driver, nVertices, fault, jobs, workers, active, channel, shutdown,
                   shutdown_receiver, last_id, pages, pages_after_signal, reducibles, recv_err, final_err, result>>
    /\ UNCHANGED <<storeVars, rangeVars, extVars>>

\* The if/else-if at the end of the loop body: hand the buffer to a reduce
\* job, or break, or go round again.
ConsumerDecide ==
    /\ mrPc = "decide"
    /\ IF Len(reducibles) >= ReducerChunkSize \/ (is_idle /\ Len(reducibles) > 1)
       THEN /\ jobs' = Append(jobs, ReduceJob(reducibles))
            /\ reducibles' = <<>>
            /\ mrPc' = "recv"
       ELSE /\ mrPc' = IF is_idle THEN "join" ELSE "recv"
            /\ UNCHANGED <<jobs, reducibles>>
    /\ is_idle' = FALSE
    /\ UNCHANGED <<driver, nVertices, fault, workers, active, channel, shutdown,
                   shutdown_receiver, last_id, pages, pages_after_signal, recv_err, final_err, result>>
    /\ UNCHANGED <<storeVars, rangeVars, extVars>>

\* pool.join() returns once no job is queued or active; then the result.
ConsumerJoin ==
    /\ mrPc = "join"
    /\ jobs = <<>>
    /\ active = 0
    /\ result' = IF final_err # 0 THEN Outcome("err", final_err)
                 ELSE IF reducibles # <<>>
                      THEN Outcome("ok", reducibles[Len(reducibles)])
                      ELSE Outcome("null", 0)
    /\ mrPc' = "returned"
    /\ UNCHANGED <<driver, nVertices, fault, jobs, workers, active, channel, shutdown,
                   shutdown_receiver, last_id, pages, pages_after_signal, reducibles, recv_err, is_idle, final_err>>
    /\ UNCHANGED <<storeVars, rangeVars, extVars>>

WorkerStep(w) ==
    \/ WorkerTake(w)
    \/ ProducerCheck(w)
    \/ ProducerPage(w)
    \/ ProducerDrop(w)
    \/ MapRun(w)
    \/ ReduceRun(w)
    \/ WorkerFinish(w)

ConsumerStep ==
    \/ ConsumerRecv
    \/ ConsumerShutdown
    \/ ConsumerActiveCount
    \/ ConsumerIsEmpty
    \/ ConsumerDecide
    \/ ConsumerJoin

MRNext ==
    \/ \E w \in PoolThreads : WorkerStep(w)
    \/ ConsumerStep

\* ------------------------------------------------------ failing-read model
\* The keyspaces the managers scan.
ScannedTrees == {"edge_ranges", "reversed_edge_ranges", "vertex_properties", "edge_properties"}

\* The reads of stored records that may fail during one call: none, or one.
FailingReads(ds) ==
    {<<>>} \cup UNION {{<<f, k>> : k \in TreeKeys(ds[f])} : f \in ScannedTrees}

\* The keyspaces as the call reads them.
WithFailingRead(ds, fr) ==
    IF fr = <<>> THEN ds ELSE [ds EXCEPT ![fr[1]] = FailingRead(@, fr[2])]

\* VertexManager::delete on a fresh batch, while at most one read fails.
FaultVertexDelete ==
    /\ pc \in {"idle", "ok", "err"}
    /\ nOps < MaxFaultOps
    /\ \E id \in Uuids, fr \in FailingReads(holder) :
          LET ds == WithFailingRead(holder, fr)
          IN /\ batch' = VertexManager_delete(ds, DefaultUberBatch, id)
             /\ returned' = <<VertexManager_delete_err(ds, id)>>
             /\ failing' = fr
             /\ lastOp' = Op("VertexManager_delete", id, <<>>, 0, 0, "queued")
    /\ pc' = "queued"
    /\ preImage' = holder
    /\ nOps' = nOps + 1
    /\ UNCHANGED <<holder, tx, txStep, observed>>
    /\ UNCHANGED <<rangeVars, mrVars, scanVars, directVars, codecVars, writerVars>>

\* The caller got Ok(()) and applies the batch.
FaultApply ==
    /\ pc = "queued"
    /\ returned = <<None>>
    /\ holder' = UberBatchApplied(holder, batch)
    /\ pc' = "ok"
    /\ lastOp' = [lastOp EXCEPT !.res = "ok"]
    /\ UNCHANGED <<batch, tx, txStep, preImage, observed, nOps>>
    /\ UNCHANGED <<rangeVars, mrVars, extVars>>

\* The caller got an error and drops the batch.
FaultDrop ==
    /\ pc = "queued"
    /\ returned # <<None>>
    /\ pc' = "err"
    /\ lastOp' = [lastOp EXCEPT !.res = "err"]
    /\ UNCHANGED <<holder, batch, tx, txStep, preImage, observed, nOps>>
    /\ UNCHANGED <<rangeVars, mrVars, extVars>>

\* One scan of an index consumed to its end, while at most one read fails.
FaultScanned(call, fr, yielded) ==
    /\ pc # "queued"
    /\ scanQuery = <<>>
    /\ scanQuery' = <<[call |-> call, failing |-> fr]>>
    /\ scanResult' = yielded
    /\ UNCHANGED <<storeVars, rangeVars, mrVars, directVars, codecVars, writerVars, faultVars>>

FaultScanForOwner ==
    \E reversed \in BOOLEAN, id \in Uuids, fr \in FailingReads(holder) :
        FaultScanned(
            ScanCall("EdgeRangeManager_iterate_for_owner", reversed, id, None, None, 0), fr,
            EdgeRangeManager_iterate_for_owner(WithFailingRead(holder, fr), reversed, id))

FaultScanForRange ==
    \E reversed \in BOOLEAN, id \in Uuids, fr \in FailingReads(holder),
       t \in {None} \cup {Some(x) : x \in EdgeTypes},
       high \in {None} \cup {Some(x) : x \in ScanHighs} :
        FaultScanned(
            ScanCall("EdgeRangeManager_iterate_for_range", reversed, id, t, high, 0), fr,
            EdgeRangeManager_iterate_for_range(WithFailingRead(holder, fr), reversed, id, t, high))

FaultNext ==
    \/ FaultVertexDelete
    \/ FaultApply
    \/ FaultDrop
    \/ FaultScanForOwner
    \/ FaultScanForRange

\* ========================================================= specifications
vars == <<storeVars, rangeVars, mrVars, extVars>>

\* The storage managers, one operation at a time, each batch applied alone.
Init == StoreInit /\ RangeInit /\ MROff /\ ExtOff
Next == StoreNext
Spec == Init /\ [][Next]_vars

\* Range queries over an index of up to MaxEntries entries.
SpecRange == Init /\ [][RangeNext]_vars

\* Writers filling, applying and dropping batches over a built store.
InitBatch == WritersStart /\ RangeInit /\ MROff /\ ExtOff
SpecBatch == InitBatch /\ [][BatchNext]_vars
SpecDeferred == InitBatch /\ [][DeferredNext]_vars

\* Cascades and index scans over a built store while a read may fail.
SpecFault == InitBatch /\ [][FaultNext]_vars

\* Keys of two logical tuples, built and read back.
SpecCodec == Init /\ [][CodecNext]_vars

\* Direct writes with values that differ from the stored ones.
SpecDirect == Init /\ [][DirectNext]_vars

\* The scans of the four keyspaces over stores of a few entries.
SpecScan == Init /\ [][ScanNext]_vars

\* One call of map_reduce.
InitMR == StoreInit /\ RangeInit /\ MRInit /\ ExtOff
SpecMR == InitMR /\ [][MRNext]_vars

\* The same under fair scheduling: every pool thread and the calling thread
\* take their next step when they can.
FairSpecMR ==
    /\ SpecMR
    /\ \A w \in PoolThreads : WF_vars(WorkerStep(w))
    /\ WF_vars(ConsumerStep)

\* One call of map_reduce with each of the driver configurations, and the same under fair
\* scheduling.
InitMRDrivers == StoreInit /\ RangeInit /\ MRStart(DriverConfigs) /\ ExtOff
SpecMRDrivers == InitMRDrivers /\ [][MRNext]_vars
FairSpecMRDrivers ==
    /\ SpecMRDrivers
    /\ \A w \in PoolThreads : WF_vars(WorkerStep(w))
    /\ WF_vars(ConsumerStep)

\* ================================================================= claims
\* What the keys of a holder's keyspaces decode to.
DecodeEdge(p) ==
    LET o == read_uuid(p[1])
        t == read_type(o.rest)
        i == read_uuid(t.rest)
    IN <<o.v, t.v, i.v, read_datetime(p[2]).v>>
DecodeRange(k) ==
    LET first == read_uuid(k)
        t == read_type(first.rest)
        d == read_datetime(t.rest)
        second == read_uuid(d.rest)
    IN <<first.v, t.v, d.v, second.v>>
DecodeEdgeProperty(k) ==
    LET o == read_uuid(k)
        t == read_type(o.rest)
        i == read_uuid(t.rest)
    IN <<o.v, t.v, i.v, read_unsized_string(i.rest).v>>

\* (o, t, i, d) of every edge record.
EdgeRecords(ds) == {DecodeEdge(p) : p \in ds["edges"]}
\* (first, t, d, second) of every forward / reverse index entry.
ForwardEntries(ds) == {DecodeRange(p[1]) : p \in ds["edge_ranges"]}
ReverseEntries(ds) == {DecodeRange(p[1]) : p \in ds["reversed_edge_ranges"]}
\* (o, t, i, name) of every edge property.
EdgePropertyKeys(ds) == {DecodeEdgeProperty(p[1]) : p \in ds["edge_properties"]}

\* I1 and I2: the forward and the reverse index hold one entry per edge
\* record, at the record's datetime, and nothing else.
IndexSymmetry(ds) ==
    /\ ForwardEntries(ds) = {<<e[1], e[2], e[4], e[3]>> : e \in EdgeRecords(ds)}
    /\ ReverseEntries(ds) = {<<e[3], e[2], e[4], e[1]>> : e \in EdgeRecords(ds)}
    /\ Cardinality(ds["edge_ranges"]) = Cardinality(ds["edges"])
    /\ Cardinality(ds["reversed_edge_ranges"]) = Cardinality(ds["edges"])

\* Some key of some keyspace names v: as vertex id, property owner, or edge
\* outbound or inbound id.
References(ds, v) ==
    \/ \E p \in ds["vertices"] : read_uuid(p[1]).v = v
    \/ \E p \in ds["vertex_properties"] : read_uuid(p[1]).v = v
    \/ \E e \in EdgeRecords(ds) : e[1] = v \/ e[3] = v
    \/ \E e \in ForwardEntries(ds) : e[1] = v \/ e[4] = v
    \/ \E e \in ReverseEntries(ds) : e[1] = v \/ e[4] = v
    \/ \E e \in EdgePropertyKeys(ds) : e[1] = v \/ e[3] = v

\* Every edge property naming v belongs to an edge that has an edge record.
EdgePropertiesOwned(ds, v) ==
    \A e \in EdgePropertyKeys(ds) :
        (e[1] = v \/ e[3] = v) => EdgeManager_get(ds, e[1], e[2], e[3]) # None

\* A vertex delete has just been applied.
VertexDeleteApplied == pc = "ok" /\ lastOp.kind = "VertexManager_delete"

\* C1. Index symmetry: whatever create, set, delete (with the stored
\* datetime) and cascade operations were applied, every edge record (o,t,i)->d
\* has exactly one forward entry (o,t,d,i) and one reverse entry (i,t,d,o),
\* and the two index keyspaces hold nothing else.
C1_IndexSymmetry == IndexSymmetry(holder)

\* A cascade removed some edges and left others, all with their index entries.
C1_Witness ==
    /\ VertexDeleteApplied
    /\ holder["edges"] # {}
    /\ holder["edges"] # preImage["edges"]

\* C2 as stated. Cascade completeness from every reachable state: once
\* VertexManager.delete(batch, v) is applied, no key of the six keyspaces
\* names v.
C2_CascadeCompleteness ==
    VertexDeleteApplied => ~References(holder, lastOp.o)

\* C2 amended. Cascade completeness when, at the call of delete, I1 and I2
\* hold and every edge property naming v belongs to an edge with a record:
\* once the delete is applied, no key of the six keyspaces names v.
C2_CascadeCompletenessOwned ==
    (/\ VertexDeleteApplied
     /\ IndexSymmetry(preImage)
     /\ EdgePropertiesOwned(preImage, lastOp.o))
        => ~References(holder, lastOp.o)

\* The cascade removed an edge of v together with a property of that edge.
C2_Witness ==
    /\ VertexDeleteApplied
    /\ IndexSymmetry(preImage)
    /\ EdgePropertiesOwned(preImage, lastOp.o)
    /\ \E e \in EdgePropertyKeys(preImage) : e[1] = lastOp.o \/ e[3] = lastOp.o
    /\ ~References(holder, lastOp.o)

\* The datetimes at which an index holds an entry for the edge (o, t, i).
ForwardDatetimes(ds, o, t, i) ==
    {e[3] : e \in {x \in ForwardEntries(ds) : x[1] = o /\ x[2] = t /\ x[4] = i}}
ReverseDatetimes(ds, o, t, i) ==
    {e[3] : e \in {x \in ReverseEntries(ds) : x[1] = i /\ x[2] = t /\ x[4] = o}}

\* EdgeManager.set(o,t,i,d2) has just been applied to the edge that an
\* applied EdgeManager.set(o,t,i,d1) left stored with d1 # d2.
Overwritten ==
    /\ pc = "ok"
    /\ lastOp.kind = "EdgeManager_set"
    /\ EdgeManager_get(preImage, lastOp.o, lastOp.t, lastOp.i) # None
    /\ EdgeManager_get(preImage, lastOp.o, lastOp.t, lastOp.i) # Some(lastOp.d)

\* C3. Edge overwrite: set(o,t,i,d1) applied, then set(o,t,i,d2) applied with
\* d1 # d2, leaves one edge record (o,t,i) with d2, one forward and one
\* reverse entry for the edge, both at d2, and none at d1.
C3_EdgeOverwrite ==
    Overwritten =>
        /\ EdgeManager_get(holder, lastOp.o, lastOp.t, lastOp.i) = Some(lastOp.d)
        /\ Cardinality({e \in EdgeRecords(holder) :
               e[1] = lastOp.o /\ e[2] = lastOp.t /\ e[3] = lastOp.i}) = 1
        /\ ForwardDatetimes(holder, lastOp.o, lastOp.t, lastOp.i) = {lastOp.d}
        /\ ReverseDatetimes(holder, lastOp.o, lastOp.t, lastOp.i) = {lastOp.d}
        /\ Cardinality({p \in holder["edge_ranges"] :
               DecodeRange(p[1]) = <<lastOp.o, lastOp.t, lastOp.d, lastOp.i>>}) = 1
        /\ Cardinality({p \in holder["reversed_edge_ranges"] :
               DecodeRange(p[1]) = <<lastOp.i, lastOp.t, lastOp.d, lastOp.o>>}) = 1

\* An edge between two different vertices was overwritten with a new datetime.
C3_Witness ==
    /\ Overwritten
    /\ lastOp.o # lastOp.i
    /\ EdgeManager_get(holder, lastOp.o, lastOp.t, lastOp.i) = Some(lastOp.d)

\* C4. Atomicity on failure: when apply returns an error, the six keyspaces
\* equal their contents before apply was called.
C4_AtomicOnFailure == pc = "err" => holder = preImage

\* An apply failed whose batch, applied, would have changed the keyspaces.
C4_Witness ==
    /\ pc = "err"
    /\ UberBatchApplied(preImage, batch) # preImage
    /\ holder = preImage

\* C5. No partial visibility: what a reader running concurrently with apply
\* reads is the pre-image or the post-image of the batch, never some of its
\* writes without the others.
C5_NoPartialVisibility ==
    observed \subseteq {preImage, UberBatchApplied(preImage, batch)}

\* A reader read the pre-image while the transaction had staged the edge
\* record of an EdgeManager.set but not yet its index entries.
C5_Witness ==
    /\ pc = "applying"
    /\ lastOp.kind = "EdgeManager_set"
    /\ txStep = 2
    /\ tx["edges"] # {}
    /\ observed = {preImage}
    /\ UberBatchApplied(preImage, batch) # preImage

\* C6 as stated. Range query bound: iterate_for_range(id, Some(t), Some(high))
\* yields exactly the index entries with first = id, type = t and
\* datetime <= high, each once.
C6_RangeBound ==
    (/\ rangeQuery # <<>>
     /\ rangeQuery[1].t # None
     /\ rangeQuery[1].high # None)
        => /\ {rangeResult[n] : n \in 1..Len(rangeResult)} =
                {e \in ForwardEntries(holder) :
                    /\ e[1] = rangeQuery[1].id
                    /\ e[2] = rangeQuery[1].t[1]
                    /\ e[3] <= rangeQuery[1].high[1]}
           /\ Cardinality({rangeResult[n] : n \in 1..Len(rangeResult)}) = Len(rangeResult)

\* A map or reduce task is queued or running.
TasksPending ==
    \/ \E n \in 1..Len(jobs) : jobs[n].kind \in {"map", "reduce"}
    \/ \E w \in PoolThreads : workers[w].st = "run" /\ workers[w].job.kind \in {"map", "reduce"}

\* No job is queued and no pool thread is working.
PoolQuiet ==
    /\ jobs = <<>>
    /\ active = 0
    /\ \A w \in PoolThreads : workers[w].st = "idle"

\* C7 as stated. Map-reduce result: with map returning 1 and reduce summing,
\* map_reduce over N >= 1 vertices returns N under every interleaving, and
\* the consumer never leaves its loop while map or reduce tasks are queued
\* or running.
C7_CountResult ==
    (fault = NoFault /\ nVertices >= 1)
        => /\ mrPc = "returned" => result = Outcome("ok", nVertices)
           /\ mrPc \in {"join", "returned"} => ~TasksPending

\* C8 as stated. Error short-circuit: once the consumer has received an
\* error, map_reduce returns Err with that error, the pool joined and no
\* worker running, whenever the error arrives.
C8_ErrorShortCircuit ==
    (recv_err # 0 /\ mrPc \in {"returned", "panicked"})
        => /\ result = Outcome("err", recv_err)
           /\ PoolQuiet

\* C9 as stated. Empty input: over zero vertices map_reduce returns Ok(null).
C9_EmptyInput ==
    (nVertices = 0 /\ fault = NoFault)
        => <>(mrPc = "returned" /\ result = Outcome("null", 0))

\* C10 as stated. Termination: without errors, map_reduce over N >= 1
\* vertices eventually returns under fair scheduling.
C10_Termination ==
    (nVertices >= 1 /\ fault = NoFault) => <>(mrPc = "returned")

\* The items a consumed range query yielded.
RangeYielded == {rangeResult[n] : n \in 1..Len(rangeResult)}

\* C11. Range query without type: iterate_for_range(id, None, Some(high))
\* yields exactly the index entries with first = id and datetime <= high,
\* of every type, and iterate_for_range(id, None, None) exactly the entries
\* with first = id; each entry once.
C11_RangeNoType ==
    (rangeQuery # <<>> /\ rangeQuery[1].t = None)
        => /\ RangeYielded =
                {e \in ForwardEntries(holder) :
                    /\ e[1] = rangeQuery[1].id
                    /\ rangeQuery[1].high # None => e[3] <= rangeQuery[1].high[1]}
           /\ Cardinality(RangeYielded) = Len(rangeResult)

\* A query without type and with a bound that yielded entries of two types,
\* one of them at the bound, and left out a later entry of the same owner.
C11_Witness ==
    /\ rangeQuery # <<>>
    /\ rangeQuery[1].t = None
    /\ rangeQuery[1].high # None
    /\ \E e1, e2 \in RangeYielded : e1[2] # e2[2] /\ e1[3] = rangeQuery[1].high[1]
    /\ \E e \in ForwardEntries(holder) :
          e[1] = rangeQuery[1].id /\ e[3] > rangeQuery[1].high[1]

DecodeVertexProperty(k) ==
    LET owner_id == read_uuid(k)
    IN <<owner_id.v, read_unsized_string(owner_id.rest).v>>

VertexPropertyKeys(ds) == {DecodeVertexProperty(p[1]) : p \in ds["vertex_properties"]}

\* The items a consumed scan yielded.
ScanYielded == {scanResult[n] : n \in 1..Len(scanResult)}

\* The decoded entries of the index a scan call reads.
ScannedIndex(call) ==
    IF call.reversed THEN ReverseEntries(holder) ELSE ForwardEntries(holder)

\* C12. Prefix boundary: no scan yields an entry of another owner (for
\* iterate_for_range with a type: of another owner or type), and each
\* iterate_for_owner yields every entry of the requested owner.
C12_PrefixBoundary ==
    scanQuery # <<>> =>
        LET call == scanQuery[1]
        IN CASE call.scan = "EdgeRangeManager_iterate_for_owner" ->
                    ScanYielded = {e \in ScannedIndex(call) : e[1] = call.id}
             [] call.scan = "EdgeRangeManager_iterate_for_range" ->
                    /\ ScanYielded \subseteq ScannedIndex(call)
                    /\ \A e \in ScanYielded :
                          /\ e[1] = call.id
                          /\ call.t # None => e[2] = call.t[1]
             [] call.scan = "VertexPropertyManager_iterate_for_owner" ->
                    {e[1] : e \in ScanYielded} =
                        {k \in VertexPropertyKeys(holder) : k[1] = call.id}
             [] call.scan = "EdgePropertyManager_iterate_for_owner" ->
                    {e[1] : e \in ScanYielded} =
                        {k \in EdgePropertyKeys(holder) :
                            k[1] = call.id /\ k[2] = call.t[1] /\ k[3] = call.i}

\* A range query without type on owner 1 yielded its entry and stopped
\* before the entry of owner 2, the next key of the index.
C12_Witness ==
    /\ scanQuery # <<>>
    /\ scanQuery[1].scan = "EdgeRangeManager_iterate_for_range"
    /\ scanQuery[1].id = 1
    /\ scanQuery[1].t = None
    /\ ScanYielded # {}
    /\ \E e \in ScannedIndex(scanQuery[1]) : e[1] = 2

\* The records a keyspace holds under a key.
RecordsAt(tree, k) == {p \in tree : p[1] = k}

\* C13. Direct writes: right after VertexManager.create(v), with no apply,
\* exists(v.id) holds and get(v.id) = Some(v.type); right after a vertex or
\* edge property set, get returns the value set; whatever was stored under
\* the key before, exactly one record is stored under it afterwards.
C13_DirectWrites ==
    /\ lastOp.kind = "VertexManager_create" =>
          /\ VertexManager_exists(holder, lastOp.o)
          /\ VertexManager_get(holder, lastOp.o) = Some(lastOp.t)
          /\ Cardinality(RecordsAt(holder["vertices"], VertexManager_key(lastOp.o))) = 1
    /\ lastOp.kind = "VertexPropertyManager_set" =>
          /\ VertexPropertyManager_get(holder, lastOp.o, lastOp.t) = Some(lastOp.d)
          /\ Cardinality(RecordsAt(holder["vertex_properties"],
                                   VertexPropertyManager_key(lastOp.o, lastOp.t))) = 1
    /\ lastOp.kind = "EdgePropertyManager_set" =>
          \A name \in Names :
              /\ EdgePropertyManager_get(holder, lastOp.o, lastOp.t, lastOp.i, name)
                    = Some(lastOp.d)
              /\ Cardinality(RecordsAt(
                     holder["edge_properties"],
                     EdgePropertyManager_key(lastOp.o, lastOp.t, lastOp.i, name))) = 1

\* A create of a vertex stored with another type, with nothing queued or
\* applied.
C13_Witness ==
    /\ lastOp.kind = "VertexManager_create"
    /\ VertexManager_get(before, lastOp.o) # None
    /\ VertexManager_get(before, lastOp.o) # Some(lastOp.t)
    /\ pc = "idle"
    /\ batch = DefaultUberBatch

\* Byte-string order, strict.
LexLess(x, y) == x # y /\ LexLeq(x, y)

\* The order of two components of a tuple: ids and datetimes as numbers,
\* types and names as strings.
ComponentLess(keyspace, n, x, y) ==
    IF (keyspace = "edge_ranges" /\ n \in {1, 3, 4})
           \/ (keyspace = "edge_properties" /\ n \in {1, 3})
    THEN x < y
    ELSE LexLess(x, y)

\* The same, with types ordered by length first and as strings within one
\* length.
ComponentLessByLength(keyspace, n, x, y) ==
    IF n = 2
    THEN Len(x) < Len(y) \/ (Len(x) = Len(y) /\ LexLess(x, y))
    ELSE ComponentLess(keyspace, n, x, y)

\* a < b in tuple order.
TupleLess(keyspace, a, b) ==
    \E n \in 1..4 :
        /\ ComponentLess(keyspace, n, a[n], b[n])
        /\ \A m \in 1..(n - 1) : a[m] = b[m]

TupleLessByLength(keyspace, a, b) ==
    \E n \in 1..4 :
        /\ ComponentLessByLength(keyspace, n, a[n], b[n])
        /\ \A m \in 1..(n - 1) : a[m] = b[m]

\* Both keys read back as the tuples they were built from.
RoundTrip ==
    /\ codecOut[1].da = codecIn[1].a
    /\ codecOut[1].db = codecIn[1].b

\* C14 as stated. Key ordering: the tuple read back from a key is the tuple
\* it was built from, and a < b in tuple order (types and names compared as
\* strings, datetimes chronologically) gives key(a) < key(b) in byte order.
C14_KeyOrdering ==
    codecIn # <<>> =>
        /\ RoundTrip
        /\ TupleLess(codecIn[1].keyspace, codecIn[1].a, codecIn[1].b)
              => LexLess(codecOut[1].ka, codecOut[1].kb)

\* C14, amended. The same with types ordered by length first: the key
\* order of two tuples is their tuple order when a shorter type comes before
\* a longer one.
C14_KeyOrderingByLength ==
    codecIn # <<>> =>
        /\ RoundTrip
        /\ TupleLessByLength(codecIn[1].keyspace, codecIn[1].a, codecIn[1].b)
              => LexLess(codecOut[1].ka, codecOut[1].kb)

\* Two index tuples of one owner with types 'b' and 'ab', the second with
\* the earlier datetime: 'b' comes first by length, and so do the keys.
C14_Witness ==
    /\ codecIn # <<>>
    /\ codecIn[1].keyspace = "edge_ranges"
    /\ codecIn[1].a[1] = codecIn[1].b[1]
    /\ codecIn[1].a[2] = <<98>>
    /\ codecIn[1].b[2] = <<97, 98>>
    /\ codecIn[1].a[3] > codecIn[1].b[3]
    /\ codecIn[1].a[4] # codecIn[1].a[1]
    /\ TupleLessByLength("edge_ranges", codecIn[1].a, codecIn[1].b)
    /\ LexLess(codecOut[1].ka, codecOut[1].kb)

\* The batch applied last, and the operations called on it.
LastCommit == committed[Len(committed)]
LastOps == LastCommit.ops

\* The last batch applied was filled and applied with no other batch applied
\* in between, so every read made while filling it saw preImage.
AppliedFresh == committed # <<>> /\ ~LastCommit.stale

\* The last batch applied holds two sets of one edge with different datetimes.
TwoSetsApplied ==
    /\ AppliedFresh
    /\ Len(LastOps) = 2
    /\ LastOps[1].kind = "EdgeManager_set"
    /\ LastOps[2].kind = "EdgeManager_set"
    /\ <<LastOps[1].o, LastOps[1].t, LastOps[1].i>> = <<LastOps[2].o, LastOps[2].t, LastOps[2].i>>
    /\ LastOps[1].d # LastOps[2].d

\* C15 as stated. Overwrite inside one batch: after a batch holding
\* set(o,t,i,d1) then set(o,t,i,d2), d1 # d2, is applied, the edge record
\* holds d2 and the forward and reverse indexes hold the edge at d2 only.
C15_OverwriteInBatch ==
    TwoSetsApplied =>
        LET e == LastOps[2]
        IN /\ EdgeManager_get(holder, e.o, e.t, e.i) = Some(e.d)
           /\ ForwardDatetimes(holder, e.o, e.t, e.i) = {e.d}
           /\ ReverseDatetimes(holder, e.o, e.t, e.i) = {e.d}

\* A commit is one EdgeManager.set and nothing else.
SingleSet(c) == Len(c.ops) = 1 /\ c.ops[1].kind = "EdgeManager_set"

\* Two writers each called one set of the same edge, with different
\* datetimes, on a batch of their own before either batch was applied, and
\* both batches are applied now; no other batch was.
ConcurrentSetsApplied ==
    /\ Len(committed) = 2
    /\ SingleSet(committed[1])
    /\ SingleSet(committed[2])
    /\ committed[2].stale
    /\ LET e1 == committed[1].ops[1]
           e2 == committed[2].ops[1]
       IN /\ <<e1.o, e1.t, e1.i>> = <<e2.o, e2.t, e2.i>>
          /\ e1.d # e2.d

\* C16 as stated. Index symmetry under concurrent writers: after each of
\* the two commits every edge record has exactly its own forward and reverse
\* index entry, and the indexes hold nothing else.
C16_ConcurrentSymmetry ==
    /\ (Len(committed) = 1 /\ SingleSet(committed[1])) => IndexSymmetry(holder)
    /\ ConcurrentSetsApplied => IndexSymmetry(holder)

\* The last batch applied holds one EdgeManager.delete and nothing else.
SingleDeleteApplied ==
    /\ AppliedFresh
    /\ Len(LastOps) = 1
    /\ LastOps[1].kind = "EdgeManager_delete"

\* ... called with a datetime other than the stored one.
MismatchedDeleteApplied ==
    /\ SingleDeleteApplied
    /\ EdgeManager_get(preImage, LastOps[1].o, LastOps[1].t, LastOps[1].i) # None
    /\ EdgeManager_get(preImage, LastOps[1].o, LastOps[1].t, LastOps[1].i)
          # Some(LastOps[1].d)

\* C17. Mismatched delete: EdgeManager.delete(batch,o,t,i,d) of an edge
\* stored at d_s # d, applied, removes the edge record and leaves the forward
\* entry (o,t,d_s,i) and the reverse entry (i,t,d_s,o) in place: only index
\* entries at d are removed.
C17_MismatchedDelete ==
    MismatchedDeleteApplied =>
        LET e == LastOps[1]
            d_s == EdgeManager_get(preImage, e.o, e.t, e.i)[1]
        IN /\ EdgeManager_get(holder, e.o, e.t, e.i) = None
           /\ ForwardDatetimes(holder, e.o, e.t, e.i)
                 = ForwardDatetimes(preImage, e.o, e.t, e.i) \ {e.d}
           /\ ReverseDatetimes(holder, e.o, e.t, e.i)
                 = ReverseDatetimes(preImage, e.o, e.t, e.i) \ {e.d}
           /\ d_s \in ForwardDatetimes(preImage, e.o, e.t, e.i)
                 => d_s \in ForwardDatetimes(holder, e.o, e.t, e.i)
           /\ d_s \in ReverseDatetimes(preImage, e.o, e.t, e.i)
                 => d_s \in ReverseDatetimes(holder, e.o, e.t, e.i)

\* A mismatched delete left both index entries of the stored datetime
\* behind, with no edge record.
C17_Witness ==
    /\ MismatchedDeleteApplied
    /\ LET e == LastOps[1]
           d_s == EdgeManager_get(preImage, e.o, e.t, e.i)[1]
       IN /\ EdgeManager_get(holder, e.o, e.t, e.i) = None
          /\ d_s \in ForwardDatetimes(holder, e.o, e.t, e.i)
          /\ d_s \in ReverseDatetimes(holder, e.o, e.t, e.i)

\* The last batch applied holds a set of an edge touching v and then the
\* cascade of v.
SetThenCascadeApplied ==
    /\ AppliedFresh
    /\ Len(LastOps) = 2
    /\ LastOps[1].kind = "EdgeManager_set"
    /\ LastOps[2].kind = "VertexManager_delete"
    /\ LastOps[2].o \in {LastOps[1].o, LastOps[1].i}

\* The queued edge is there after apply, record and both index entries, and
\* the vertex is not.
QueuedEdgeSurvives ==
    LET e == LastOps[1]
    IN /\ EdgeManager_get(holder, e.o, e.t, e.i) = Some(e.d)
       /\ e.d \in ForwardDatetimes(holder, e.o, e.t, e.i)
       /\ e.d \in ReverseDatetimes(holder, e.o, e.t, e.i)
       /\ ~VertexManager_exists(holder, LastOps[2].o)

\* C18 as stated. Cascade reads live state: an edge touching v queued by
\* EdgeManager.set earlier in the batch is not cascaded by
\* VertexManager.delete(batch, v); after apply the edge record and its two
\* index entries exist and the vertex record of v does not.
C18_CascadeReadsLive == SetThenCascadeApplied => QueuedEdgeSurvives

\* The live keyspaces hold nothing of the edge: no record and no index entry.
EdgeAbsent(ds, o, t, i) ==
    /\ EdgeManager_get(ds, o, t, i) = None
    /\ ForwardDatetimes(ds, o, t, i) = {}
    /\ ReverseDatetimes(ds, o, t, i) = {}

\* C18, amended. The same for an edge of which the live keyspaces hold no
\* record and no index entry when the cascade is called.
C18_CascadeReadsLiveAbsent ==
    (/\ SetThenCascadeApplied
     /\ EdgeAbsent(preImage, LastOps[1].o, LastOps[1].t, LastOps[1].i))
        => QueuedEdgeSurvives

\* The cascade removed the stored vertex and a stored edge of it, and the
\* edge queued before it, absent from the live keyspaces, came into being.
C18_Witness ==
    /\ SetThenCascadeApplied
    /\ EdgeAbsent(preImage, LastOps[1].o, LastOps[1].t, LastOps[1].i)
    /\ VertexManager_exists(preImage, LastOps[2].o)
    /\ preImage["edges"] # {}
    /\ QueuedEdgeSurvives
    /\ Cardinality(holder["edges"]) = 1

\* The last batch applied holds one EdgeManager.delete, called with the
\* stored datetime.
MatchedDeleteApplied ==
    /\ SingleDeleteApplied
    /\ EdgeManager_get(preImage, LastOps[1].o, LastOps[1].t, LastOps[1].i)
          = Some(LastOps[1].d)

\* C19. Edge delete effect and frame: EdgeManager.delete(batch,o,t,i,d)
\* with the stored d, applied, removes the edge record (o,t,i), the forward
\* entry (o,t,d,i), the reverse entry (i,t,d,o) and every edge property of
\* (o,t,i), and changes nothing else in the six keyspaces.
C19_EdgeDeleteFrame ==
    MatchedDeleteApplied =>
        LET e == LastOps[1]
        IN /\ holder["edges"] =
                {p \in preImage["edges"] :
                    SubSeq(DecodeEdge(p), 1, 3) # <<e.o, e.t, e.i>>}
           /\ holder["edge_ranges"] =
                {p \in preImage["edge_ranges"] :
                    DecodeRange(p[1]) # <<e.o, e.t, e.d, e.i>>}
           /\ holder["reversed_edge_ranges"] =
                {p \in preImage["reversed_edge_ranges"] :
                    DecodeRange(p[1]) # <<e.i, e.t, e.d, e.o>>}
           /\ holder["edge_properties"] =
                {p \in preImage["edge_properties"] :
                    SubSeq(DecodeEdgeProperty(p[1]), 1, 3) # <<e.o, e.t, e.i>>}
           /\ holder["vertices"] = preImage["vertices"]
           /\ holder["vertex_properties"] = preImage["vertex_properties"]
           /\ EdgeManager_get(holder, e.o, e.t, e.i) = None

\* The edge (1,'a',2) and its property were removed; the edge of the other
\* type (1,'ab',2) and the opposite edge (2,'a',1) are there as before, each
\* with its property.
C19_Witness ==
    /\ MatchedDeleteApplied
    /\ <<LastOps[1].o, LastOps[1].t, LastOps[1].i>> = <<1, TypeA, 2>>
    /\ EdgePropertyManager_get(preImage, 1, TypeA, 2, <<110>>) # None
    /\ EdgePropertyManager_get(holder, 1, TypeA, 2, <<110>>) = None
    /\ EdgeManager_get(holder, 1, TypeAB, 2) # None
    /\ EdgeManager_get(holder, 2, TypeA, 1) # None
    /\ EdgePropertyManager_get(holder, 1, TypeAB, 2, <<110>>) # None
    /\ EdgePropertyManager_get(holder, 2, TypeA, 1, <<110>>) # None

\* C20. Batched operations are deferred: as long as no batch is applied,
\* whatever is called on a batch (EdgeManager.set and delete,
\* VertexManager.delete, EdgeRangeManager.set and delete, the property
\* deletes) and dropping the batch leave the six keyspaces as they are.
C20_Deferred == [][committed' = committed => holder' = holder]_vars

\* A cascade was queued over the store with three edges and its batch was
\* dropped: the store is as it was built.
C20_Witness ==
    /\ dropped # <<>>
    /\ dropped[1].kind = "VertexManager_delete"
    /\ committed = <<>>
    /\ holder = ThreeEdges

\* ---------------------------------------------------------------- C21
\* The failed read is of an index entry the cascade of vertex id scans.
CascadeIndexReadFailed ==
    /\ lastOp.kind = "VertexManager_delete"
    /\ returned # <<>>
    /\ failing # <<>>
    /\ failing[1] \in {"edge_ranges", "reversed_edge_ranges"}
    /\ starts_with(failing[2], build(<<CUuid(lastOp.o)>>))

\* The failed read is of an entry the consumed index scan reaches.
ScanReadFailed ==
    /\ scanQuery # <<>>
    /\ LET call == scanQuery[1].call
           fr == scanQuery[1].failing
       IN /\ fr # <<>>
          /\ fr[1] = EdgeRangeTree(call.reversed)
          /\ IF call.t = None
             THEN starts_with(fr[2], build(<<CUuid(call.id)>>))
             ELSE /\ starts_with(fr[2], build(<<CUuid(call.id), CType(call.t[1])>>))
                  /\ LexLeq(build(<<CUuid(call.id), CType(call.t[1]),
                                    CDateTime(IF call.high # None THEN call.high[1]
                                              ELSE MAX_DATETIME)>>),
                            fr[2])

\* C21: a read that fails on an item of the forward or reverse index scan of
\* VertexManager::delete makes the call return an error; a call that returned
\* Ok(()) has queued the whole cascade; and a consumed iterate_for_owner or
\* iterate_for_range sequence whose scan met a failing read holds an Err item.
C21_ErrorsSurfaced ==
    /\ CascadeIndexReadFailed => returned # <<None>>
    /\ (lastOp.kind = "VertexManager_delete" /\ returned = <<None>> /\ pc = "queued")
          => batch = VertexManager_delete(holder, DefaultUberBatch, lastOp.o)
    /\ ScanReadFailed => FirstErr(scanResult) # None

\* ---------------------------------------------------------------- C22
\* The producer's job is neither queued nor running.
ProducerGone ==
    /\ \A n \in 1..Len(jobs) : jobs[n].kind # "producer"
    /\ \A w \in PoolThreads : workers[w].job.kind # "producer"

\* The consumer hands a reduce job to the pool.
SubmitsReduce ==
    /\ Len(jobs') > Len(jobs)
    /\ jobs'[Len(jobs')].kind = "reduce"

\* C22: with any driver configuration of num_workers >= 1, reducer_chunk_size
\* 0 and 1 and query_limit 0 included, and no failing call, under fair
\* scheduling the producer eventually stops issuing page queries (its job
\* returns) and the consumer eventually stops submitting reduce jobs: the two
\* conditions without which map_reduce cannot return.
C22_TerminatesForEveryDriver ==
    (driver.num_workers >= 1 /\ fault = NoFault)
        => /\ <>ProducerGone
           /\ <>[][~SubmitsReduce]_vars

\* ---------------------------------------------------------------- C23
\* The producer starts a page query.
PageQueryStarts ==
    \E w \in PoolThreads : workers[w].ppc = "query" /\ workers'[w].ppc # "query"

\* The shutdown signal was sent and the producer has taken it off the channel.
SignalObserved == final_err # 0 /\ shutdown = 0

\* C23: once the consumer has received an error it submits no reduce job;
\* once the producer has observed the shutdown signal it starts no page
\* query; and at most one page query starts after the signal was sent.
C23_PageGrainCancellation ==
    /\ [][recv_err # 0 => ~SubmitsReduce]_vars
    /\ [][SignalObserved => ~PageQueryStarts]_vars
    /\ [](pages_after_signal <= 1)

\* The signal was sent between the producer's check and its page query: one
\* page query started after it, and the producer returned at the next check.
C23_Witness ==
    /\ pages_after_signal = 1
    /\ SignalObserved
    /\ ProducerGone
    /\ mrPc \in {"join", "returned"}

\* ---------------------------------------------------------------- C24
\* The reverse index holds (b,t,d,a) exactly for the (a,t,d,b) of the forward
\* index, and neither keyspace holds two keys of one entry.
Mirror(ds) ==
    /\ ReverseEntries(ds) = {<<e[4], e[2], e[3], e[1]>> : e \in ForwardEntries(ds)}
    /\ Cardinality(ds["edge_ranges"]) = Cardinality(ForwardEntries(ds))
    /\ Cardinality(ds["reversed_edge_ranges"]) = Cardinality(ReverseEntries(ds))

\* C24. Mirror invariant: after every committed batch, whatever
\* EdgeManager.set, EdgeManager.delete (with the stored datetime or another)
\* and VertexManager.delete calls filled the batches, (a,t,d,b) is in the
\* forward index if and only if (b,t,d,a) is in the reverse index.
C24_MirrorInvariant == committed # <<>> => Mirror(holder)

\* A batch of an EdgeManager.delete and another operation was applied, and the
\* indexes hold entries that match no edge record: they still mirror each other.
C24_Witness ==
    /\ committed # <<>>
    /\ Len(LastOps) = 2
    /\ \E n \in 1..2 : LastOps[n].kind = "EdgeManager_delete"
    /\ \E n \in 1..2 : LastOps[n].kind \in {"EdgeManager_set", "VertexManager_delete"}
    /\ ~IndexSymmetry(holder)
    /\ ForwardEntries(holder) # {}
    /\ Mirror(holder)

\* ---------------------------------------------------------------- C25
\* The last batch applied holds one EdgeManager.set and nothing else, of an
\* edge stored with the datetime the set was called with.
SameDatetimeSetApplied ==
    /\ AppliedFresh
    /\ SingleSet(LastCommit)
    /\ EdgeManager_get(preImage, LastOps[1].o, LastOps[1].t, LastOps[1].i)
          = Some(LastOps[1].d)

\* C25. Idempotent set: EdgeManager.set(batch,o,t,i,d) of an edge stored with
\* the same datetime d, applied, leaves the six keyspaces as they were; the
\* forward and reverse index keys, removed and inserted again in the one
\* batch, are present afterwards.
C25_IdempotentSet ==
    SameDatetimeSetApplied =>
        LET e == LastOps[1]
        IN /\ holder = preImage
           /\ TreeGet(holder["edge_ranges"], EdgeRangeManager_key(e.o, e.t, e.d, e.i)) # None
           /\ TreeGet(holder["reversed_edge_ranges"],
                      EdgeRangeManager_key(e.i, e.t, e.d, e.o)) # None

\* Such a set was applied to a store holding the edge's record, index pair
\* and property, and all of them are there afterwards.
C25_Witness ==
    /\ SameDatetimeSetApplied
    /\ LET e == LastOps[1]
       IN /\ e.d \in ForwardDatetimes(preImage, e.o, e.t, e.i)
          /\ e.d \in ReverseDatetimes(holder, e.o, e.t, e.i)
          /\ holder["edge_properties"] # {}
          /\ holder = preImage

\* ---------------------------------------------------------------- C26
\* The value lists of the reduce jobs queued or running.
ReduceInputs ==
    {jobs[n].arg : n \in {m \in 1..Len(jobs) : jobs[m].kind = "reduce"}}
        \cup {workers[w].job.arg : w \in {x \in PoolThreads : workers[x].job.kind = "reduce"}}

\* C26. Reduce input size: with a driver reducer_chunk_size >= 2, every reduce
\* job holds at least two values and at most the effective chunk size, and
\* a submission hands the whole buffer, in order, to the one new job and
\* leaves the buffer empty.
C26_ReduceInputSize ==
    /\ [](driver.reducer_chunk_size >= 2
            => \A values \in ReduceInputs :
                   Len(values) >= 2 /\ Len(values) <= ReducerChunkSize)
    /\ [][(driver.reducer_chunk_size >= 2 /\ SubmitsReduce)
            => /\ Len(jobs') = Len(jobs) + 1
               /\ SubSeq(jobs', 1, Len(jobs)) = jobs
               /\ jobs'[Len(jobs')].arg = reducibles
               /\ reducibles' = <<>>]_vars

\* A reduce job of two values runs, in a run over three vertices with a driver
\* that sets reducer_chunk_size to 2.
C26_Witness ==
    /\ driver.reducer_chunk_size = 2
    /\ \E w \in PoolThreads :
          workers[w].job.kind = "reduce" /\ Len(workers[w].job.arg) = 2
    /\ nVertices = 3
====
